---- MODULE Spec2Model ----
(***************************************************************************)
(* Model of the real-time duplex streaming client of delphi:               *)
(*   - the inbound audio playback scheduler (useLiveAPI hook),             *)
(*   - the tool-call intent gate (BrowserIntentAgent.onToolCall),          *)
(*   - the streaming protocol client (MultimodalLiveClient).               *)
(* Each component is a record of the refs / fields the code keeps; each    *)
(* handler is an operator from a component state to the next one, and each *)
(* action applies one whole handler.  Time is discrete: a clock tick moves *)
(* every pending timer, and a timer fires exactly when it is due.          *)
(***************************************************************************)
EXTENDS Integers, Sequences, FiniteSets, TLC

VARIABLES pb, pbEnv, gate, gateEnv, client, clientEnv, vad, vadEnv, phr, rec, recEnv,
          mute, muteEnv

vars == <<pb, pbEnv, gate, gateEnv, client, clientEnv, vad, vadEnv, phr, rec, recEnv,
          mute, muteEnv>>

\* A timer that is not pending.
Off == -1

Range(s) == {s[i] : i \in 1..Len(s)}

Min(a, b) == IF a < b THEN a ELSE b

\* Remaining time of a timer after d ms.
Dec(t, d) == IF t = Off THEN Off ELSE t - d

\* The smallest element of a non-empty set of numbers.
SetMin(S) == CHOOSE m \in S : \A x \in S : m <= x

\* How far the clock moves: to the earliest of the pending timers, at most d.
NextStep(pending, d) == SetMin(pending \cup {d})

(***************************************************************************)
(* 1. Inbound audio playback scheduler                                     *)
(***************************************************************************)

\* Bounds of the playback environment.
MaxAudio == 4
MaxInterrupted == 1
MaxTurnComplete == 1

\* Tuning constants of the hook.
MIN_SPEECH_GAP == 500
SPEECH_END_DELAY == 1000
DRAIN_DELAY == 10
TURN_COMPLETE_DRAIN_DELAY == 100

\* The clock of the playback model advances to the next instant at which a
\* timer is due, and by at most this much at a time.
PlaybackTickMs == TURN_COMPLETE_DRAIN_DELAY

\* "Date.now() - lastSpeechEndTimeRef.current" is kept up to this value:
\* every larger value compares the same with MIN_SPEECH_GAP.
SinceCap == MIN_SPEECH_GAP + PlaybackTickMs

pbInit ==
    [ audioStreamerRef      |-> FALSE,   \* null until the audio context resolves
      audioContextReadyRef  |-> FALSE,
      audioBufferQueue      |-> << >>,
      isProcessingAudio     |-> FALSE,
      processingTimeoutRef  |-> FALSE,   \* holds a timer id
      drainTimers           |-> << >>,   \* pending processNextBuffer timers
      isSpeakingRef         |-> FALSE,
      speechTimeoutRef      |-> Off,     \* pending speech-end timer
      sinceSpeechEnd        |-> SinceCap,\* Date.now() - lastSpeechEndTimeRef
      turnCompleteTimers    |-> << >>,   \* pending onTurnComplete timers
      connected             |-> FALSE,   \* the 'connected' state of the hook
      connecting            |-> {},      \* sockets a connect() of the hook awaits
      device                |-> << >> ]  \* calls made on the AudioStreamer

\* window.setTimeout(processNextBuffer, 10): the new timer's id replaces the
\* one held by processingTimeoutRef.
SetDrainTimer(timers) ==
    [i \in 1..Len(timers) |-> [timers[i] EXCEPT !.held = FALSE]]
        \o << [rem |-> DRAIN_DELAY, held |-> TRUE] >>

\* window.clearTimeout(processingTimeoutRef.current)
ClearHeldDrainTimer(timers) ==
    SelectSeq(timers, LAMBDA t : ~t.held)

\* Mutant: the drain loop takes the newest buffer (pop) instead of the oldest.
processNextBufferLifo(s) ==
    IF Len(s.audioBufferQueue) = 0
    THEN [s EXCEPT !.isProcessingAudio = FALSE]
    ELSE LET n == Len(s.audioBufferQueue)
             buffer == s.audioBufferQueue[n]
         IN [s EXCEPT
               !.audioBufferQueue = SubSeq(s.audioBufferQueue, 1, n - 1),
               !.device = Append(@, [op |-> "addPCM16", chunk |-> buffer]),
               !.isSpeakingRef = TRUE,
               !.speechTimeoutRef = SPEECH_END_DELAY,
               !.drainTimers = SetDrainTimer(@),
               !.processingTimeoutRef = TRUE]

\* processNextBuffer: one turn of the drain loop.
processNextBuffer(s) ==
    IF Len(s.audioBufferQueue) = 0
    THEN [s EXCEPT !.isProcessingAudio = FALSE]
    ELSE LET buffer == Head(s.audioBufferQueue)
         IN [s EXCEPT
               !.audioBufferQueue = Tail(@),
               !.device = Append(@, [op |-> "addPCM16", chunk |-> buffer]),
               !.isSpeakingRef = TRUE,
               !.speechTimeoutRef = SPEECH_END_DELAY,
               !.drainTimers = SetDrainTimer(@),
               !.processingTimeoutRef = TRUE]

processAudioQueue(s) ==
    IF ~s.audioStreamerRef \/ ~s.audioContextReadyRef
    THEN s
    ELSE processNextBuffer([s EXCEPT !.isProcessingAudio = TRUE])

\* Mutant: the 'interrupted' listener stops the timers and the output but
\* keeps the queued chunks.
stopAudioStreamerKeepsQueue(s) ==
    [s EXCEPT
       !.drainTimers = IF s.processingTimeoutRef THEN ClearHeldDrainTimer(@) ELSE @,
       !.processingTimeoutRef = FALSE,
       !.speechTimeoutRef = Off,
       !.isProcessingAudio = FALSE,
       !.isSpeakingRef = FALSE,
       !.device = IF s.audioStreamerRef THEN Append(@, [op |-> "stop", chunk |-> 0]) ELSE @]

\* The 'interrupted' listener.
\* stopAudioStreamer that leaves the timer of the drain loop pending.
stopAudioStreamerKeepsTimer(s) ==
    [s EXCEPT
       !.processingTimeoutRef = FALSE,
       !.speechTimeoutRef = Off,
       !.audioBufferQueue = << >>,
       !.isProcessingAudio = FALSE,
       !.isSpeakingRef = FALSE,
       !.device = IF s.audioStreamerRef THEN Append(@, [op |-> "stop", chunk |-> 0]) ELSE @]

stopAudioStreamer(s) ==
    [s EXCEPT
       !.drainTimers = IF s.processingTimeoutRef THEN ClearHeldDrainTimer(@) ELSE @,
       !.processingTimeoutRef = FALSE,
       !.speechTimeoutRef = Off,
       !.audioBufferQueue = << >>,
       !.isProcessingAudio = FALSE,
       !.isSpeakingRef = FALSE,
       !.device = IF s.audioStreamerRef THEN Append(@, [op |-> "stop", chunk |-> 0]) ELSE @]

\* The 'audio' listener.
onAudio(s, data) ==
    LET timeSinceLastSpeech == s.sinceSpeechEnd
        q == [s EXCEPT !.audioBufferQueue = Append(@, data)]
    IN IF /\ ~q.isProcessingAudio
          /\ q.audioContextReadyRef
          /\ (~q.isSpeakingRef \/ timeSinceLastSpeech > MIN_SPEECH_GAP)
       THEN processAudioQueue(q)
       ELSE q

\* The 'turncomplete' listener: only arms a timer.
onTurnComplete(s) ==
    [s EXCEPT !.turnCompleteTimers = Append(@, TURN_COMPLETE_DRAIN_DELAY)]

\* The body of the timer armed by onTurnComplete.
onTurnCompleteTimeout(s) ==
    LET q == [s EXCEPT !.isSpeakingRef = FALSE,
                       !.sinceSpeechEnd = 0,
                       !.turnCompleteTimers = Tail(@)]
    IN IF Len(q.audioBufferQueue) > 0 /\ ~q.isProcessingAudio
       THEN processAudioQueue(q)
       ELSE q

\* The body of the speech-end timer.
onSpeechTimeout(s) ==
    [s EXCEPT !.isSpeakingRef = FALSE,
              !.sinceSpeechEnd = 0,
              !.speechTimeoutRef = Off]

\* audioContext(...).then: the AudioStreamer is created.
onAudioContext(s) ==
    [s EXCEPT !.audioStreamerRef = TRUE]

\* Mutant: the end of the initialization marks the device ready and leaves
\* the queue for the next 'audio' event.
onWorkletAddedNoDrain(s) ==
    [s EXCEPT !.audioContextReadyRef = TRUE]

\* addWorklet(...).then: the output device is ready.
onWorkletAdded(s) ==
    LET q == [s EXCEPT !.audioContextReadyRef = TRUE]
    IN IF Len(q.audioBufferQueue) > 0 /\ ~q.isProcessingAudio
       THEN processAudioQueue(q)
       ELSE q

\* The remaining times of the pending timers.
pbPending(s) ==
    {s.drainTimers[i].rem : i \in 1..Len(s.drainTimers)}
      \cup {s.turnCompleteTimers[i] : i \in 1..Len(s.turnCompleteTimers)}
      \cup (IF s.speechTimeoutRef = Off THEN {} ELSE {s.speechTimeoutRef})

pbPass(s, d) ==
    [s EXCEPT
       !.drainTimers = [i \in 1..Len(@) |-> [@[i] EXCEPT !.rem = @ - d]],
       !.speechTimeoutRef = Dec(@, d),
       !.turnCompleteTimers = [i \in 1..Len(@) |-> @[i] - d],
       !.sinceSpeechEnd = Min(@ + d, SinceCap)]

\* Environment of the scheduler: how many events of each kind were delivered,
\* and whether chunks were waiting when the initialization completed.
pbEnvInit ==
    [ audio |-> 0, interrupted |-> 0, turncomplete |-> 0, queuedAtInit |-> FALSE,
      graceChunks |-> {},    \* chunks delivered between 'interrupted' and its 'turncomplete'
      resolved |-> {} ]      \* sockets for which connect() of the hook has resolved

PbAudioContextResolved ==
    /\ ~pb.audioStreamerRef
    /\ pb' = onAudioContext(pb)
    /\ UNCHANGED <<vad, vadEnv, pbEnv, gate, gateEnv, client, clientEnv, phr, rec, recEnv, mute, muteEnv>>

PbWorkletAdded ==
    /\ pb.audioStreamerRef /\ ~pb.audioContextReadyRef
    /\ pb' = onWorkletAdded(pb)
    /\ pbEnv' = [pbEnv EXCEPT !.queuedAtInit = (pb.audioBufferQueue # << >>)]
    /\ UNCHANGED <<vad, vadEnv, gate, gateEnv, client, clientEnv, phr, rec, recEnv, mute, muteEnv>>

\* An 'audio' event; chunks are numbered in order of arrival.
PbAudio ==
    /\ pbEnv.audio < MaxAudio
    /\ pbEnv' = [pbEnv EXCEPT !.audio = @ + 1]
    /\ pb' = onAudio(pb, pbEnv.audio + 1)
    /\ UNCHANGED <<vad, vadEnv, gate, gateEnv, client, clientEnv, phr, rec, recEnv, mute, muteEnv>>

PbInterrupted ==
    /\ pbEnv.interrupted < MaxInterrupted
    /\ pbEnv' = [pbEnv EXCEPT !.interrupted = @ + 1]
    /\ pb' = stopAudioStreamer(pb)
    /\ UNCHANGED <<vad, vadEnv, gate, gateEnv, client, clientEnv, phr, rec, recEnv, mute, muteEnv>>

PbTurnComplete ==
    /\ pbEnv.turncomplete < MaxTurnComplete
    /\ pbEnv' = [pbEnv EXCEPT !.turncomplete = @ + 1]
    /\ pb' = onTurnComplete(pb)
    /\ UNCHANGED <<vad, vadEnv, gate, gateEnv, client, clientEnv, phr, rec, recEnv, mute, muteEnv>>

PbDrainTimerFires ==
    /\ \E i \in 1..Len(pb.drainTimers) :
          /\ pb.drainTimers[i].rem = 0
          /\ pb' = processNextBuffer(
                     [pb EXCEPT !.drainTimers =
                        SubSeq(@, 1, i - 1) \o SubSeq(@, i + 1, Len(@))])
    /\ UNCHANGED <<vad, vadEnv, pbEnv, gate, gateEnv, client, clientEnv, phr, rec, recEnv, mute, muteEnv>>

PbSpeechTimerFires ==
    /\ pb.speechTimeoutRef = 0
    /\ pb' = onSpeechTimeout(pb)
    /\ UNCHANGED <<vad, vadEnv, pbEnv, gate, gateEnv, client, clientEnv, phr, rec, recEnv, mute, muteEnv>>

PbTurnCompleteTimerFires ==
    /\ Len(pb.turnCompleteTimers) > 0
    /\ Head(pb.turnCompleteTimers) = 0
    /\ pb' = onTurnCompleteTimeout(pb)
    /\ UNCHANGED <<vad, vadEnv, pbEnv, gate, gateEnv, client, clientEnv, phr, rec, recEnv, mute, muteEnv>>

\* Time passes up to the next due timer; a due timer fires before time passes.
PbTick ==
    /\ NextStep(pbPending(pb), PlaybackTickMs) > 0
    /\ pb' = pbPass(pb, NextStep(pbPending(pb), PlaybackTickMs))
    /\ pb' # pb
    /\ UNCHANGED <<vad, vadEnv, pbEnv, gate, gateEnv, client, clientEnv, phr, rec, recEnv, mute, muteEnv>>

(***************************************************************************)
(* 2. Streaming protocol client (MultimodalLiveClient)                     *)
(***************************************************************************)

\* Bounds of the client environment.
MaxSockets == 2
MaxFrames == 2
MaxDisconnects == 2
MaxSends == 2

\* Constants of receive().
INTERRUPT_GRACE_DELAY == 700
TURN_COMPLETE_DELAY == 150
BATCH_SIZE == 3
BATCH_PAUSE == 10

\* The clock of the client model moves to the next due timer, at most this far.
ClientTickMs == TURN_COMPLETE_DELAY

\* this.ws === null
Null == 0

\* this.config before the first connect(config); the config given to the
\* k-th connect call is k.
NoConfig == 0

\* Parts of a model turn: inline audio, inline audio without data, text.
AudioPart == [kind |-> "audio", mimeType |-> "audio/pcm", data |-> TRUE]
EmptyAudioPart == [kind |-> "audio", mimeType |-> "audio/pcm", data |-> FALSE]
TextPart == [kind |-> "text", mimeType |-> "", data |-> FALSE]

\* The part lists the server sends in the model: up to two mixed parts, and a
\* run of audio parts longer than one batch.
PartLists ==
    { << >>, <<AudioPart>>, <<TextPart>>, <<AudioPart, TextPart>>,
      <<EmptyAudioPart, AudioPart>>,
      [i \in 1..(BATCH_SIZE + 1) |-> AudioPart],
      [i \in 1..(BATCH_SIZE + 2) |-> IF i = 2 THEN TextPart ELSE AudioPart] }

NoToolCall == << >>

ServerContentFrames ==
    { [kind |-> "serverContent", interrupted |-> i, turnComplete |-> t,
       modelTurn |-> m, parts |-> p, functionCalls |-> NoToolCall] :
         i \in BOOLEAN, t \in BOOLEAN, m \in BOOLEAN, p \in PartLists }

\* Frames are well-formed: parts only inside a model turn; an interrupted
\* frame carries no model turn.
WellFormed(f) ==
    /\ (~f.modelTurn => f.parts = << >>)
    /\ (f.modelTurn => f.parts # << >>)
    /\ (f.interrupted => ~f.modelTurn)

ControlFrames ==
    { [kind |-> k, interrupted |-> FALSE, turnComplete |-> FALSE,
       modelTurn |-> FALSE, parts |-> << >>, functionCalls |-> NoToolCall] :
         k \in {"setupComplete", "toolCallCancellation", "unmatched"} }

\* A frame with a toolCall field.
ToolCallFrame ==
    [kind |-> "toolCall", interrupted |-> FALSE, turnComplete |-> FALSE,
     modelTurn |-> FALSE, parts |-> << >>, functionCalls |-> <<"log_browser_intent">>]

\* Type guards of multimodal-live-types.
isToolCallMessage(f) == f.kind = "toolCall"
isToolCallCancellationMessage(f) == f.kind = "toolCallCancellation"
isSetupCompleteMessage(f) == f.kind = "setupComplete"
isServerContentMessage(f) == f.kind = "serverContent"
isInterrupted(f) == f.interrupted
isTurnComplete(f) == f.turnComplete
isModelTurn(f) == f.modelTurn

clientInit ==
    [ ws       |-> Null,     \* this.ws: the socket in use
      config   |-> NoConfig, \* this.config
      sockets  |-> << >>,    \* every WebSocket connect() created
      receives |-> << >>,    \* receive() calls in progress
      timers   |-> << >>,    \* pending delayed 'turncomplete' emissions
      emitted  |-> << >>,    \* events emitted, in order
      logs     |-> << >>,    \* 'log' events emitted, in order
      wire     |-> << >> ]   \* frames written with ws.send, in order

emit(cl, ev) == [cl EXCEPT !.emitted = Append(@, ev)]

Event(type, frame, part, after) ==
    [type |-> type, frame |-> frame, part |-> part, after |-> after]

\* log(type, message): emits a 'log' event.
log(cl, type, message) ==
    [cl EXCEPT !.logs = Append(@, [type |-> type, message |-> message])]

\* _sendDirect: throws when no socket is set, else calls ws.send, which
\* transmits the frame on an open socket and discards it without an error on
\* a socket that is closing or closed.
_sendDirect(cl, request) ==
    IF cl.ws = Null
    THEN [threw |-> TRUE, client |-> cl]
    ELSE IF cl.sockets[cl.ws].state = "open"
    THEN [threw |-> FALSE,
          client |-> [cl EXCEPT !.wire = Append(@, [sock |-> cl.ws, frame |-> request])]]
    ELSE [threw |-> FALSE, client |-> cl]

\* The statements after _sendDirect run only when it did not throw.
ThenLog(sent, type, message) ==
    IF sent.threw THEN sent
    ELSE [threw |-> FALSE, client |-> log(sent.client, type, message)]

\* The media chunks of the model, by mimeType.
MimeTypes == {"audio/pcm", "image/jpeg", "text/plain"}

ChunkLists ==
    { << >> } \cup { <<m>> : m \in MimeTypes }
              \cup { <<"image/jpeg", "audio/pcm">>, <<"text/plain", "audio/pcm">> }

\* mimeType.includes("audio"), mimeType.includes("image")
IncludesAudio(mimeType) == mimeType = "audio/pcm"

IncludesImage(mimeType) == mimeType = "image/jpeg"

sendRealtimeInput(cl, chunks) ==
    LET hasAudio == \E i \in 1..Len(chunks) : IncludesAudio(chunks[i])
        hasVideo == \E i \in 1..Len(chunks) : IncludesImage(chunks[i])
        message == IF hasAudio /\ hasVideo THEN "audio + video"
                   ELSE IF hasAudio THEN "audio"
                   ELSE IF hasVideo THEN "video"
                   ELSE "unknown"
    IN ThenLog(_sendDirect(cl, [kind |-> "realtimeInput", body |-> chunks]),
               "client.realtimeInput", message)

sendToolResponse(cl, toolResponse) ==
    ThenLog(_sendDirect(cl, [kind |-> "toolResponse", body |-> toolResponse]),
            "client.toolResponse", "toolResponse")

send(cl, parts) ==
    ThenLog(_sendDirect(cl, [kind |-> "clientContent", body |-> parts]),
            "client.send", "clientContent")

\* WebSocket.close(): starts the closing handshake of a socket not yet closed.
SocketClose(sock) ==
    IF sock.state \in {"connecting", "open"}
    THEN [sock EXCEPT !.state = "closing"]
    ELSE sock

\* Mutant: disconnect() closes the socket but keeps the reference to it.
disconnectKeepsRef(cl, ws) ==
    IF (ws = Null \/ cl.ws = ws) /\ cl.ws # Null
    THEN [ret |-> TRUE,
          client |-> log([cl EXCEPT !.sockets[cl.ws] = SocketClose(@)],
                         "client.close", "Disconnected")]
    ELSE [ret |-> FALSE, client |-> cl]

\* disconnect(ws?): ws = Null stands for the call without argument.
disconnect(cl, ws) ==
    IF (ws = Null \/ cl.ws = ws) /\ cl.ws # Null
    THEN [ret |-> TRUE,
          client |-> log([cl EXCEPT !.sockets[cl.ws] = SocketClose(@),
                                    !.ws = Null],
                         "client.close", "Disconnected")]
    ELSE [ret |-> FALSE, client |-> cl]

\* connect(config) up to the returned promise: a new socket with its
\* 'message', 'error' and 'open' listeners.
connect(cl, config) ==
    [cl EXCEPT !.config = config,
               !.sockets = Append(@, [state |-> "connecting",
                                      config |-> config,
                                      onError |-> TRUE,
                                      onClose |-> FALSE,
                                      promise |-> "pending"])]

\* The 'open' listener of socket ws.
onOpen(cl, ws) ==
    IF cl.config = NoConfig
    THEN [cl EXCEPT !.sockets[ws].state = "open",
                    !.sockets[ws].promise = "rejected"]
    ELSE LET c1 == emit(log([cl EXCEPT !.sockets[ws].state = "open"],
                            "client.open", "connected to socket"),
                        Event("open", ws, 0, 0))
             c2 == [c1 EXCEPT !.ws = ws]
             c3 == ThenLog(_sendDirect(c2, [kind |-> "setup", body |-> c2.config]),
                           "client.send", "setup").client
         IN [c3 EXCEPT !.sockets[ws].onError = FALSE,
                       !.sockets[ws].onClose = TRUE,
                       !.sockets[ws].promise = "resolved"]

\* The 'error' listener of socket ws (attached until the socket opens).
onError(cl, ws) ==
    LET c1 == log(disconnect(cl, ws).client, "server.error", "Could not connect")
    IN [c1 EXCEPT !.sockets[ws].promise = "rejected"]

\* The 'close' listener of socket ws (attached when the socket opens).
onClose(cl, ws) ==
    emit(log(disconnect(cl, ws).client, "server.close", "disconnected"),
         Event("close", ws, 0, 0))

\* The indices of the audio parts of a part list, in part order.
AudioIndices(parts) ==
    SelectSeq([i \in 1..Len(parts) |-> i],
              LAMBDA i : parts[i].kind = "audio" /\ parts[i].mimeType = "audio/pcm")

OtherIndices(parts) ==
    SelectSeq([i \in 1..Len(parts) |-> i],
              LAMBDA i : ~(parts[i].kind = "audio" /\ parts[i].mimeType = "audio/pcm"))

RECURSIVE EmitAll(_, _, _, _)
\* Emits an 'audio' event for each index of idx whose part has data.
EmitAll(cl, fid, parts, idx) ==
    IF idx = << >> THEN cl
    ELSE EmitAll(IF parts[Head(idx)].data
                 THEN log(emit(cl, Event("audio", fid, Head(idx), 0)),
                          "server.audio", "buffer")
                 ELSE cl,
                 fid, parts, Tail(idx))

\* Mutant: a 'content' event is emitted for every model turn, also when no
\* part is left after the audio parts.
receiveContentAlways(cl, r) ==
    LET other == OtherIndices(r.frame.parts)
    IN log(emit(cl, [type |-> "content", frame |-> r.id, part |-> other,
                     after |-> 0]),
           "server.content", "response")

\* The end of receive() for a model turn, after the audio loop.
receiveContent(cl, r) ==
    LET other == OtherIndices(r.frame.parts)
    IN IF Len(other) = 0
       THEN cl
       ELSE log(emit(cl, [type |-> "content", frame |-> r.id, part |-> other,
                          after |-> 0]),
                "server.content", "response")

\* One pass of the audio loop of receive() r, from base64s[r.i + 1]: emits a
\* batch, then either pauses (the call stays in progress) or finishes.
\* Returns the client and, when the call pauses, the paused call.
receiveBatch(cl, r) ==
    LET idx == AudioIndices(r.frame.parts)
        n == Len(idx)
        batch == SubSeq(idx, r.i + 1, Min(r.i + BATCH_SIZE, n))
        c1 == EmitAll(cl, r.id, r.frame.parts, batch)
    IN IF r.i + BATCH_SIZE < n
       THEN [client |-> c1,
             paused |-> << [r EXCEPT !.stage = "pause", !.i = @ + BATCH_SIZE,
                                     !.timer = BATCH_PAUSE] >>]
       ELSE [client |-> receiveContent(c1, r), paused |-> << >>]

SetTimer(cl, fid, delay) ==
    [cl EXCEPT !.timers = Append(@, [frame |-> fid, rem |-> delay, delay |-> delay])]

\* Mutant: the grace delay before 'turncomplete' is the turn-complete delay.
onInterruptedShortDelay(cl, r) ==
    SetTimer(emit(log(cl, "receive.serverContent", "interrupted"),
                  Event("interrupted", r.id, 0, 0)),
             r.id, TURN_COMPLETE_DELAY)

\* The interrupted branch of receive(): emit 'interrupted', arm the delayed
\* 'turncomplete', return.
onInterrupted(cl, r) ==
    SetTimer(emit(log(cl, "receive.serverContent", "interrupted"),
                  Event("interrupted", r.id, 0, 0)),
             r.id, INTERRUPT_GRACE_DELAY)

\* receive() closing the connection on a frame it cannot match.
receiveUnmatchedDisconnects(cl, r) ==
    LET f == r.frame IN
    IF isToolCallMessage(f)
    THEN [client |-> emit(cl, Event("toolcall", r.id, 0, 0)), paused |-> << >>]
    ELSE IF isToolCallCancellationMessage(f)
    THEN [client |-> emit(cl, Event("toolcallcancellation", r.id, 0, 0)), paused |-> << >>]
    ELSE IF isSetupCompleteMessage(f)
    THEN [client |-> emit(cl, Event("setupcomplete", r.id, 0, 0)), paused |-> << >>]
    ELSE IF isServerContentMessage(f)
    THEN IF isInterrupted(f)
         THEN [client |-> onInterrupted(cl, r), paused |-> << >>]
         ELSE LET c1 == IF isTurnComplete(f)
                        THEN SetTimer(log(cl, "server.send", "turnComplete"),
                                      r.id, TURN_COMPLETE_DELAY)
                        ELSE cl
              IN IF isModelTurn(f)
                 THEN IF Len(AudioIndices(f.parts)) > 0
                      THEN receiveBatch(c1, r)
                      ELSE [client |-> receiveContent(c1, r), paused |-> << >>]
                 ELSE [client |-> c1, paused |-> << >>]
    ELSE [client |-> disconnect(cl, Null).client, paused |-> << >>]

\* receive() from the point where blobToJSON has resolved.
receive(cl, r) ==
    LET f == r.frame IN
    IF isToolCallMessage(f)
    THEN [client |-> emit(cl, Event("toolcall", r.id, 0, 0)), paused |-> << >>]
    ELSE IF isToolCallCancellationMessage(f)
    THEN [client |-> emit(cl, Event("toolcallcancellation", r.id, 0, 0)), paused |-> << >>]
    ELSE IF isSetupCompleteMessage(f)
    THEN [client |-> emit(cl, Event("setupcomplete", r.id, 0, 0)), paused |-> << >>]
    ELSE IF isServerContentMessage(f)
    THEN IF isInterrupted(f)
         THEN [client |-> onInterrupted(cl, r), paused |-> << >>]
         ELSE LET c1 == IF isTurnComplete(f)
                        THEN SetTimer(log(cl, "server.send", "turnComplete"),
                                      r.id, TURN_COMPLETE_DELAY)
                        ELSE cl
              IN IF isModelTurn(f)
                 THEN IF Len(AudioIndices(f.parts)) > 0
                      THEN receiveBatch(c1, r)
                      ELSE [client |-> receiveContent(c1, r), paused |-> << >>]
                 ELSE [client |-> c1, paused |-> << >>]
    ELSE [client |-> cl, paused |-> << >>]

\* The body of a delayed 'turncomplete' timer.
onTurnCompleteTimer(cl, i) ==
    emit([cl EXCEPT !.timers = SubSeq(@, 1, i - 1) \o SubSeq(@, i + 1, Len(@))],
         Event("turncomplete", cl.timers[i].frame, 0, cl.timers[i].delay - cl.timers[i].rem))

RemoveAt(s, i) == SubSeq(s, 1, i - 1) \o SubSeq(s, i + 1, Len(s))

clPending(cl) ==
    {cl.timers[i].rem : i \in 1..Len(cl.timers)}
      \cup {cl.receives[i].timer : i \in {j \in 1..Len(cl.receives) : cl.receives[j].stage = "pause"}}

clPass(cl, d) ==
    [cl EXCEPT
       !.timers = [i \in 1..Len(@) |-> [@[i] EXCEPT !.rem = @ - d]],
       !.receives = [i \in 1..Len(@) |->
                       IF @[i].stage = "pause" THEN [@[i] EXCEPT !.timer = @ - d] ELSE @[i]]]

\* Environment of the client: frames received so far, and what the last
\* explicit disconnect() call did.
clientEnvInit ==
    [ frames |-> 0,
      log |-> << >>,
      disconnects |-> 0,
      prevWasDisconnect |-> FALSE,
      last |-> [ws |-> Null, ret |-> FALSE, same |-> TRUE, inRow |-> FALSE, prevRet |-> FALSE],
      sends |-> 0,
      lastSend |-> [op |-> "none", ws |-> Null, ready |-> FALSE, anyOpen |-> FALSE,
                    threw |-> FALSE, frames |-> << >>, logs |-> << >>, same |-> TRUE,
                    handled |-> {}],
      late |-> {} ]   \* frames that arrived on a socket older than one that had opened

NotDisconnect(env) == [env EXCEPT !.prevWasDisconnect = FALSE]

\* client.connect(config) is called.
ClConnect ==
    /\ Len(client.sockets) < MaxSockets
    /\ client' = connect(client, Len(client.sockets) + 1)
    /\ clientEnv' = NotDisconnect(clientEnv)
    /\ UNCHANGED <<vad, vadEnv, pb, pbEnv, gate, gateEnv, phr, rec, recEnv, mute, muteEnv>>

\* The first client.connect(config) of a session.
ClFirstConnect ==
    /\ Len(client.sockets) = 0
    /\ client' = connect(client, Len(client.sockets) + 1)
    /\ clientEnv' = NotDisconnect(clientEnv)
    /\ UNCHANGED <<vad, vadEnv, pb, pbEnv, gate, gateEnv, phr, rec, recEnv, mute, muteEnv>>

\* The transport of a connecting socket is established.
ClSocketOpens ==
    /\ \E ws \in 1..Len(client.sockets) :
          /\ client.sockets[ws].state = "connecting"
          /\ client' = onOpen(client, ws)
    /\ clientEnv' = NotDisconnect(clientEnv)
    /\ UNCHANGED <<vad, vadEnv, pb, pbEnv, gate, gateEnv, phr, rec, recEnv, mute, muteEnv>>

\* The transport of a connecting socket fails: 'error', then the socket is closed.
ClSocketFails ==
    /\ \E ws \in 1..Len(client.sockets) :
          /\ client.sockets[ws].state = "connecting"
          /\ client.sockets[ws].onError
          /\ client' = [onError(client, ws) EXCEPT !.sockets[ws].state = "closed"]
    /\ clientEnv' = NotDisconnect(clientEnv)
    /\ UNCHANGED <<vad, vadEnv, pb, pbEnv, gate, gateEnv, phr, rec, recEnv, mute, muteEnv>>

\* A socket finishes closing (after close(), or closed by the remote end):
\* its 'close' event is dispatched.
ClSocketCloses ==
    /\ \E ws \in 1..Len(client.sockets) :
          /\ client.sockets[ws].state \in {"open", "closing"}
          /\ LET c1 == [client EXCEPT !.sockets[ws].state = "closed"]
             IN client' = IF c1.sockets[ws].onClose THEN onClose(c1, ws) ELSE c1
    /\ clientEnv' = NotDisconnect(clientEnv)
    /\ UNCHANGED <<vad, vadEnv, pb, pbEnv, gate, gateEnv, phr, rec, recEnv, mute, muteEnv>>

\* The remote end starts the closing handshake of an open socket: the socket
\* is closing, its 'close' event comes when the connection is closed.
ClRemoteClosing ==
    /\ \E ws \in 1..Len(client.sockets) :
          /\ client.sockets[ws].state = "open"
          /\ client' = [client EXCEPT !.sockets[ws].state = "closing"]
    /\ clientEnv' = NotDisconnect(clientEnv)
    /\ UNCHANGED <<vad, vadEnv, pb, pbEnv, gate, gateEnv, phr, rec, recEnv, mute, muteEnv>>

\* The application calls one of the send methods; sent is what the call did.
ClSendCall(op, sent) ==
    /\ clientEnv.sends < MaxSends
    /\ client' = sent.client
    /\ clientEnv' = [NotDisconnect(clientEnv) EXCEPT
          !.sends = @ + 1,
          !.lastSend = [op |-> op,
                        ws |-> client.ws,
                        ready |-> (client.ws # Null /\ client.sockets[client.ws].state = "open"),
                        anyOpen |-> (\E w \in 1..Len(client.sockets) :
                                        client.sockets[w].state = "open"),
                        threw |-> sent.threw,
                        frames |-> SubSeq(sent.client.wire, Len(client.wire) + 1,
                                          Len(sent.client.wire)),
                        logs |-> SubSeq(sent.client.logs, Len(client.logs) + 1,
                                        Len(sent.client.logs)),
                        same |-> (sent.client = client),
                        handled |-> {fid \in 1..clientEnv.frames :
                                       \A i \in 1..Len(client.receives) :
                                          client.receives[i].id = fid
                                            => client.receives[i].stage # "parse"}]]
    /\ UNCHANGED <<vad, vadEnv, pb, pbEnv, gate, gateEnv, phr, rec, recEnv, mute, muteEnv>>

ClSend == ClSendCall("clientContent", send(client, [text |-> "hello"]))

ClSendRealtimeInput ==
    \E chunks \in ChunkLists : ClSendCall("realtimeInput", sendRealtimeInput(client, chunks))

ClSendToolResponse ==
    ClSendCall("toolResponse",
               sendToolResponse(client, [id |-> <<0, 0>>, success |-> TRUE]))

\* The application calls client.disconnect().
ClDisconnect ==
    /\ clientEnv.disconnects < MaxDisconnects
    /\ LET r == disconnect(client, Null)
       IN /\ client' = r.client
          /\ clientEnv' = [clientEnv EXCEPT
                !.disconnects = @ + 1,
                !.prevWasDisconnect = TRUE,
                !.last = [ws |-> client.ws, ret |-> r.ret,
                          same |-> (r.client = client),
                          inRow |-> clientEnv.prevWasDisconnect,
                          prevRet |-> clientEnv.last.ret]]
    /\ UNCHANGED <<vad, vadEnv, pb, pbEnv, gate, gateEnv, phr, rec, recEnv, mute, muteEnv>>

\* The 'message' listener: a frame arrives on a socket and receive() starts
\* (it first awaits blobToJSON).
\* A socket created by a later connect() than ws has opened.
LaterSocketOpened(cl, ws) ==
    \E w \in (ws + 1)..Len(cl.sockets) : cl.sockets[w].promise = "resolved"

ClMessage(frames) ==
    /\ clientEnv.frames < MaxFrames
    /\ \E ws \in 1..Len(client.sockets), f \in frames :
          /\ client.sockets[ws].state = "open"
          /\ client' = [client EXCEPT !.receives =
                 Append(@, [id |-> clientEnv.frames + 1, sock |-> ws, frame |-> f,
                            stage |-> "parse", i |-> 0, timer |-> Off])]
          /\ clientEnv' = [NotDisconnect(clientEnv) EXCEPT
                !.frames = @ + 1,
                !.log = Append(@, f),
                !.late = IF LaterSocketOpened(client, ws)
                         THEN @ \cup {clientEnv.frames + 1} ELSE @]
    /\ UNCHANGED <<vad, vadEnv, pb, pbEnv, gate, gateEnv, phr, rec, recEnv, mute, muteEnv>>

\* The number of audio parts whose batches take longer to emit than the
\* turn-complete delay: one pause more than fit into the delay.
LongTurnParts == BATCH_SIZE * (TURN_COMPLETE_DELAY \div BATCH_PAUSE + 1) + 1

\* Frames that end a turn, or not, with a model turn of one part, two parts,
\* two batches, or a long run of audio parts.
TurnEndFrames ==
    { f \in [kind : {"serverContent"}, interrupted : {FALSE}, turnComplete : BOOLEAN,
             modelTurn : {TRUE}, functionCalls : {NoToolCall},
             parts : { <<AudioPart>>, <<AudioPart, TextPart>>,
                       [i \in 1..(BATCH_SIZE + 1) |-> AudioPart],
                       [i \in 1..LongTurnParts |-> AudioPart] }] :
        Len(f.parts) = LongTurnParts => f.turnComplete }

\* The frames of a turn arrive one after the other: the next one when the
\* receive() call of the previous one has ended.
ClTurnEndMessage == client.receives = << >> /\ ClMessage(TurnEndFrames)

\* The frames the server sends: the well-formed ServerContent frames and the
\* control frames.
ServerFrames == {f \in ServerContentFrames : WellFormed(f)} \cup ControlFrames

ClServerMessage == ClMessage(ServerFrames)

\* Frames of every variant, and frames of none: the control frames, a tool
\* call, and the ServerContent frames of every combination of flags, with a
\* model turn of one audio and one text part (receive() does not pause on it).
DispatchFrames ==
    ControlFrames \cup {ToolCallFrame}
      \cup {f \in ServerContentFrames :
               WellFormed(f) /\ f.parts \in {<< >>, <<AudioPart, TextPart>>}}

ClDispatchMessage == ClMessage(DispatchFrames)

\* The receive() call to resume next: blobToJSON resolves in order of arrival.
NextParse(cl) ==
    {i \in 1..Len(cl.receives) :
        /\ cl.receives[i].stage = "parse"
        /\ \A j \in 1..(i - 1) : cl.receives[j].stage # "parse"}

\* blobToJSON resolves and receive() runs up to its first pause or its end.
ClReceive ==
    /\ \E i \in NextParse(client) :
          LET r == receive([client EXCEPT !.receives = RemoveAt(@, i)], client.receives[i])
          IN client' = [r.client EXCEPT !.receives = @ \o r.paused]
    /\ clientEnv' = NotDisconnect(clientEnv)
    /\ UNCHANGED <<vad, vadEnv, pb, pbEnv, gate, gateEnv, phr, rec, recEnv, mute, muteEnv>>

\* The pause between two audio batches ends and receive() resumes.
ClReceiveResumes ==
    /\ \E i \in 1..Len(client.receives) :
          /\ client.receives[i].stage = "pause"
          /\ client.receives[i].timer = 0
          /\ LET r == receiveBatch([client EXCEPT !.receives = RemoveAt(@, i)],
                                   client.receives[i])
             IN client' = [r.client EXCEPT !.receives = @ \o r.paused]
    /\ clientEnv' = NotDisconnect(clientEnv)
    /\ UNCHANGED <<vad, vadEnv, pb, pbEnv, gate, gateEnv, phr, rec, recEnv, mute, muteEnv>>

ClTurnCompleteTimerFires ==
    /\ \E i \in 1..Len(client.timers) :
          /\ client.timers[i].rem = 0
          /\ client' = onTurnCompleteTimer(client, i)
    /\ clientEnv' = NotDisconnect(clientEnv)
    /\ UNCHANGED <<vad, vadEnv, pb, pbEnv, gate, gateEnv, phr, rec, recEnv, mute, muteEnv>>

ClTick ==
    /\ clPending(client) # {}
    /\ NextStep(clPending(client), ClientTickMs) > 0
    /\ client' = clPass(client, NextStep(clPending(client), ClientTickMs))
    /\ UNCHANGED <<vad, vadEnv, pb, pbEnv, gate, gateEnv, clientEnv, phr, rec, recEnv, mute, muteEnv>>

(***************************************************************************)
(* 3. Tool-call intent gate (BrowserIntentAgent.onToolCall)                *)
(***************************************************************************)

\* Constants of the gate.
TEXT_DEBOUNCE_THRESHOLD == 2000
ACTION_DEBOUNCE_THRESHOLD == 3500
THROTTLE_INTERVAL == 1000
PRE_FETCH_DELAY == 100
FETCH_TIMEOUT == 5000
UPDATE_DELAY == 200
RELEASE_DELAY == 2000

\* The clock of the gate model moves to the next due timer, at most this far.
GateTickMs == THROTTLE_INTERVAL

\* "Date.now() - lastIntentTimestampRef.current" is kept up to this value:
\* every larger value compares the same with the three thresholds.
IntentAgeCap == ACTION_DEBOUNCE_THRESHOLD

\* The time a side effect may take at most: the delay before the fetch, the
\* hard timeout, the delay before the update is sent.
SideEffectBudget == PRE_FETCH_DELAY + FETCH_TIMEOUT + UPDATE_DELAY

\* The time since a call was accepted is kept up to this value.
ElapsedCap == SideEffectBudget + GateTickMs

LogIntentName == "log_browser_intent"

Actions == {"SEARCH", "NAVIGATE"}
Targets == {"pizza"}
RawTexts == {"find pizza", "pizza please"}

\* The calls of the model: a call, the same intent rephrased, and another
\* intent taken from the same utterance.
LogCalls ==
    { c \in [name : {LogIntentName}, action : Actions, target : Targets,
             rawText : RawTexts] :
         c.action = "SEARCH" \/ c.rawText = "find pizza" }

\* The function-call lists of the ToolCall messages of the model: one call,
\* or the two calls the model issues for one utterance.
FunctionCallLists ==
    { <<c>> : c \in LogCalls }
      \cup { << [name |-> LogIntentName, action |-> "NAVIGATE", target |-> "pizza",
                 rawText |-> "find pizza"],
                [name |-> LogIntentName, action |-> "SEARCH", target |-> "pizza",
                 rawText |-> "find pizza"] >> }

ToolCallFrames ==
    { [kind |-> "toolCall", interrupted |-> FALSE, turnComplete |-> FALSE,
       modelTurn |-> FALSE, parts |-> << >>, functionCalls |-> fcs] :
         fcs \in FunctionCallLists }

\* The id of the function call at position pos of frame fid.
CallId(fid, pos) == <<fid, pos>>

gateInit ==
    [ processingIntentRef  |-> FALSE,
      lastIntentTextRef    |-> "",
      lastActionTargetRef  |-> "",
      sinceLastIntent      |-> IntentAgeCap,  \* Date.now() - lastIntentTimestampRef
      intents              |-> << >>,         \* the UI log
      handlers             |-> << >>,         \* onToolCall calls past acceptance
      releaseTimers        |-> << >> ]        \* pending lock-release timers

\* `${action}:${target}`
ActionTargetKey(action, target) == action \o ":" \o target

\* toolCall.functionCalls.find(f => f.name === logIntentDeclaration.name)
FindLogIntent(fcs) ==
    LET hits == {i \in 1..Len(fcs) : fcs[i].name = LogIntentName}
    IN IF hits = {} THEN 0 ELSE SetMin(hits)

ToolResponse(id, success, skipped, duplicateType, error) ==
    [id |-> id, success |-> success, skipped |-> skipped,
     duplicateType |-> duplicateType, error |-> error]

\* The three duplicate checks of onToolCall.
isExactDuplicate(g, rawText) ==
    rawText = g.lastIntentTextRef /\ g.sinceLastIntent < TEXT_DEBOUNCE_THRESHOLD

\* Mutant: the action+target window is as short as the exact-text window.
isActionTargetDuplicateShortWindow(g, actionTargetKey) ==
    /\ actionTargetKey = g.lastActionTargetRef
    /\ g.sinceLastIntent < TEXT_DEBOUNCE_THRESHOLD

isActionTargetDuplicate(g, actionTargetKey) ==
    /\ actionTargetKey = g.lastActionTargetRef
    /\ g.sinceLastIntent < ACTION_DEBOUNCE_THRESHOLD

isThrottled(g) == g.sinceLastIntent < THROTTLE_INTERVAL

\* onToolCall up to its first await (or its return): the lock check, the
\* duplicate checks, the acceptance.  A response that cannot be written
\* (sendToolResponse throws) ends the call.
\* onToolCall that records the text of a call the lock skips.
onToolCallRecordsSkipped(g, cl, fid, toolCall) ==
    LET pos == FindLogIntent(toolCall.functionCalls) IN
    IF pos = 0
    THEN [gate |-> g, client |-> cl]
    ELSE
      LET fc == toolCall.functionCalls[pos]
          id == CallId(fid, pos)
          actionTargetKey == ActionTargetKey(fc.action, fc.target)
      IN
      IF g.processingIntentRef
      THEN [gate |-> [g EXCEPT !.lastIntentTextRef = fc.rawText],
            client |-> sendToolResponse(cl, ToolResponse(id, TRUE, TRUE, "none", "none")).client]
      ELSE IF \/ isExactDuplicate(g, fc.rawText)
              \/ isActionTargetDuplicate(g, actionTargetKey)
              \/ isThrottled(g)
      THEN [gate |-> g,
            client |-> sendToolResponse(cl,
                         ToolResponse(id, TRUE, FALSE,
                           IF isExactDuplicate(g, fc.rawText) THEN "exact"
                           ELSE IF isActionTargetDuplicate(g, actionTargetKey)
                                THEN "actionTarget"
                                ELSE "throttled",
                           "none")).client]
      ELSE [gate |-> [g EXCEPT
                        !.processingIntentRef = TRUE,
                        !.lastIntentTextRef = fc.rawText,
                        !.lastActionTargetRef = actionTargetKey,
                        !.sinceLastIntent = 0,
                        !.handlers = Append(@,
                            [id |-> id, action |-> fc.action, target |-> fc.target,
                             rawText |-> fc.rawText, stage |-> "preFetchDelay",
                             timer |-> PRE_FETCH_DELAY, fetch |-> "none",
                             elapsed |-> 0])],
            client |-> cl]

onToolCall(g, cl, fid, toolCall) ==
    LET pos == FindLogIntent(toolCall.functionCalls) IN
    IF pos = 0
    THEN [gate |-> g, client |-> cl]
    ELSE
      LET fc == toolCall.functionCalls[pos]
          id == CallId(fid, pos)
          actionTargetKey == ActionTargetKey(fc.action, fc.target)
      IN
      IF g.processingIntentRef
      THEN [gate |-> g,
            client |-> sendToolResponse(cl, ToolResponse(id, TRUE, TRUE, "none", "none")).client]
      ELSE IF \/ isExactDuplicate(g, fc.rawText)
              \/ isActionTargetDuplicate(g, actionTargetKey)
              \/ isThrottled(g)
      THEN [gate |-> g,
            client |-> sendToolResponse(cl,
                         ToolResponse(id, TRUE, FALSE,
                           IF isExactDuplicate(g, fc.rawText) THEN "exact"
                           ELSE IF isActionTargetDuplicate(g, actionTargetKey)
                                THEN "actionTarget"
                                ELSE "throttled",
                           "none")).client]
      ELSE [gate |-> [g EXCEPT
                        !.processingIntentRef = TRUE,
                        !.lastIntentTextRef = fc.rawText,
                        !.lastActionTargetRef = actionTargetKey,
                        !.sinceLastIntent = 0,
                        !.handlers = Append(@,
                            [id |-> id, action |-> fc.action, target |-> fc.target,
                             rawText |-> fc.rawText, stage |-> "preFetchDelay",
                             timer |-> PRE_FETCH_DELAY, fetch |-> "none",
                             elapsed |-> 0])],
            client |-> cl]

\* finally: the lock is released by a timer.
onFinally(g, h) ==
    [g EXCEPT !.handlers[h].stage = "done",
              !.handlers[h].timer = Off,
              !.handlers[h].elapsed = 0,
              !.releaseTimers = Append(@, RELEASE_DELAY)]

\* catch: acknowledge the failure (the write may throw), then finally.
onCatch(g, cl, h, error) ==
    [gate |-> onFinally(g, h),
     client |-> sendToolResponse(cl,
                  ToolResponse(g.handlers[h].id, FALSE, FALSE, "none", error)).client]

\* After the first delay: the fetch starts and races the timeout.
startFetch(g, h) ==
    [g EXCEPT !.handlers[h].stage = "fetching",
              !.handlers[h].timer = FETCH_TIMEOUT,
              !.handlers[h].fetch = "pending"]

\* The fetch wins the race with a response: not ok throws, ok reads the body.
onFetchResponse(g, cl, h, ok) ==
    LET g1 == [g EXCEPT !.handlers[h].fetch = "settled", !.handlers[h].timer = Off]
    IN IF ~ok
       THEN onCatch(g1, cl, h, "HTTP error")
       ELSE [gate |-> [g1 EXCEPT !.handlers[h].stage = "readingBody"], client |-> cl]

\* The fetch loses: it rejects (network error) before the timeout.
onFetchRejected(g, cl, h) ==
    onCatch([g EXCEPT !.handlers[h].fetch = "settled", !.handlers[h].timer = Off],
            cl, h, "Failed to fetch")

\* The timeout wins the race: the fetch itself is left running.
onFetchTimeout(g, cl, h) ==
    onCatch([g EXCEPT !.handlers[h].timer = Off], cl, h, "Request timeout")

\* response.text() resolves: wait before sending the update.
onBodyRead(g, h) ==
    [g EXCEPT !.handlers[h].stage = "updateDelay",
              !.handlers[h].timer = UPDATE_DELAY]

\* After the second delay: send the update, log the intent, acknowledge.
sendUpdate(g, cl, h) ==
    LET upd == send(cl, [text |-> "[UPDATE]"])
    IN IF upd.threw
       THEN onCatch(g, cl, h, "WebSocket is not connected")
       ELSE LET g1 == [g EXCEPT !.intents = Append(@,
                          [action |-> g.handlers[h].action,
                           target |-> g.handlers[h].target,
                           rawText |-> g.handlers[h].rawText])]
                ack == sendToolResponse(upd.client,
                          ToolResponse(g.handlers[h].id, TRUE, FALSE, "none", "none"))
            IN [gate |-> onFinally(g1, h), client |-> ack.client]

\* The body of a lock-release timer.
onReleaseTimer(g) ==
    [g EXCEPT !.processingIntentRef = FALSE, !.releaseTimers = Tail(@)]

gatePending(g) ==
    {g.handlers[i].timer : i \in {j \in 1..Len(g.handlers) : g.handlers[j].timer # Off}}
      \cup {g.releaseTimers[i] : i \in 1..Len(g.releaseTimers)}

gatePass(g, d) ==
    [g EXCEPT
       !.handlers = [i \in 1..Len(@) |->
                       [@[i] EXCEPT !.timer = Dec(@, d),
                                    !.elapsed = IF g.handlers[i].stage = "done" THEN 0
                                                ELSE Min(@ + d, ElapsedCap)]],
       !.releaseTimers = [i \in 1..Len(@) |-> @[i] - d],
       !.sinceLastIntent = Min(@ + d, IntentAgeCap)]

\* What the gate saw at each 'toolcall' event, in order.
gateEnvInit == [calls |-> << >>]

\* The application ends the session, client.disconnect(), while a message is
\* being parsed or a side effect is under way (with the gate idle nothing it
\* does later depends on the socket).
GateDisconnect ==
    /\ client.ws # Null
    /\ \/ NextParse(client) # {}
       \/ \E h \in 1..Len(gate.handlers) : gate.handlers[h].stage # "done"
    /\ client' = disconnect(client, Null).client
    /\ UNCHANGED <<vad, vadEnv, pb, pbEnv, gate, gateEnv, clientEnv, phr, rec, recEnv, mute, muteEnv>>

\* A ToolCall message arrives on a socket.
GateToolCallMessage == ClMessage(ToolCallFrames) /\ UNCHANGED gateEnv

\* blobToJSON resolves for a ToolCall message: receive() emits 'toolcall'
\* and the listener onToolCall runs.
GateToolCall ==
    /\ \E i \in NextParse(client) :
          LET r == client.receives[i]
              c1 == receive([client EXCEPT !.receives = RemoveAt(@, i)], r).client
              w == onToolCall(gate, c1, r.id, r.frame)
          IN /\ isToolCallMessage(r.frame)
             /\ gate' = w.gate
             /\ client' = w.client
             /\ gateEnv' = [gateEnv EXCEPT !.calls = Append(@,
                    [frame |-> r.id,
                     functionCalls |-> r.frame.functionCalls,
                     locked |-> gate.processingIntentRef,
                     inTextWindow |-> gate.sinceLastIntent < TEXT_DEBOUNCE_THRESHOLD,
                     inActionWindow |-> gate.sinceLastIntent < ACTION_DEBOUNCE_THRESHOLD,
                     prevText |-> gate.lastIntentTextRef,
                     prevKey |-> gate.lastActionTargetRef,
                     intents |-> Len(gate.intents)])]
    /\ clientEnv' = NotDisconnect(clientEnv)
    /\ UNCHANGED <<vad, vadEnv, pb, pbEnv, phr, rec, recEnv, mute, muteEnv>>

GateStep(w) ==
    /\ gate' = w.gate
    /\ client' = w.client
    /\ UNCHANGED <<vad, vadEnv, pb, pbEnv, gateEnv, clientEnv, phr, rec, recEnv, mute, muteEnv>>

GatePreFetchDelayElapsed ==
    \E h \in 1..Len(gate.handlers) :
        /\ gate.handlers[h].stage = "preFetchDelay"
        /\ gate.handlers[h].timer = 0
        /\ GateStep([gate |-> startFetch(gate, h), client |-> client])

GateFetchResponds ==
    \E h \in 1..Len(gate.handlers), ok \in BOOLEAN :
        /\ gate.handlers[h].stage = "fetching"
        /\ GateStep(onFetchResponse(gate, client, h, ok))

GateFetchRejects ==
    \E h \in 1..Len(gate.handlers) :
        /\ gate.handlers[h].stage = "fetching"
        /\ GateStep(onFetchRejected(gate, client, h))

GateFetchTimesOut ==
    \E h \in 1..Len(gate.handlers) :
        /\ gate.handlers[h].stage = "fetching"
        /\ gate.handlers[h].timer = 0
        /\ GateStep(onFetchTimeout(gate, client, h))

\* A fetch abandoned by the timeout settles later: nobody listens.
GateAbandonedFetchSettles ==
    \E h \in 1..Len(gate.handlers) :
        /\ gate.handlers[h].stage = "done"
        /\ gate.handlers[h].fetch = "pending"
        /\ GateStep([gate |-> [gate EXCEPT !.handlers[h].fetch = "settled"],
                     client |-> client])

GateBodyRead ==
    \E h \in 1..Len(gate.handlers) :
        /\ gate.handlers[h].stage = "readingBody"
        /\ GateStep([gate |-> onBodyRead(gate, h), client |-> client])

GateBodyFails ==
    \E h \in 1..Len(gate.handlers) :
        /\ gate.handlers[h].stage = "readingBody"
        /\ GateStep(onCatch(gate, client, h, "body read failed"))

\* response.text() never settles: the call stays suspended for good.
GateBodyStalls ==
    \E h \in 1..Len(gate.handlers) :
        /\ gate.handlers[h].stage = "readingBody"
        /\ GateStep([gate |-> [gate EXCEPT !.handlers[h].stage = "bodyStalled"],
                     client |-> client])

GateUpdateDelayElapsed ==
    \E h \in 1..Len(gate.handlers) :
        /\ gate.handlers[h].stage = "updateDelay"
        /\ gate.handlers[h].timer = 0
        /\ GateStep(sendUpdate(gate, client, h))

GateReleaseTimerFires ==
    /\ Len(gate.releaseTimers) > 0
    /\ Head(gate.releaseTimers) = 0
    /\ GateStep([gate |-> onReleaseTimer(gate), client |-> client])

\* Time passes.  blobToJSON takes less than a clock step, and so does
\* response.text() when the body arrives at all.
\* The time to the next moment the gate tells apart: a timer that is due, or
\* the last accepted intent reaching the throttle interval.
gateNextStep(g) ==
    NextStep(gatePending(g)
               \cup (IF g.sinceLastIntent < THROTTLE_INTERVAL
                     THEN {THROTTLE_INTERVAL - g.sinceLastIntent}
                     ELSE {}),
             GateTickMs)

GateTick ==
    /\ NextParse(client) = {}
    /\ \A h \in 1..Len(gate.handlers) : gate.handlers[h].stage # "readingBody"
    /\ gateNextStep(gate) > 0
    /\ gate' = gatePass(gate, gateNextStep(gate))
    /\ gate' # gate
    /\ UNCHANGED <<vad, vadEnv, pb, pbEnv, gateEnv, client, clientEnv, phr, rec, recEnv, mute, muteEnv>>

(***************************************************************************)
(* 4. The hook listening to the client (useLiveAPI subscriptions)          *)
(***************************************************************************)

\* The clock of the composed model moves to the next due timer of the client
\* or of the hook, at most this far.
SessionTickMs == TURN_COMPLETE_DELAY

\* The frames of a session in the composed model: an interruption, a turn
\* end, a model turn with one audio part and one with more than a batch.
SessionFrames ==
    { f \in ServerContentFrames :
        /\ WellFormed(f)
        /\ \/ f.interrupted /\ ~f.turnComplete
           \/ ~f.interrupted /\ f.turnComplete /\ ~f.modelTurn
           \/ /\ ~f.interrupted /\ ~f.turnComplete /\ f.modelTurn
              /\ f.parts \in {<<AudioPart>>, [i \in 1..(BATCH_SIZE + 1) |-> AudioPart]} }

\* A grace timer of an interruption is pending.
InGraceWindow(cl) ==
    \E i \in 1..Len(cl.timers) : cl.timers[i].delay = INTERRUPT_GRACE_DELAY

RECURSIVE Listen(_, _, _, _)
\* client.on("interrupted", stopAudioStreamer).on("audio", onAudio)
\*       .on("turncomplete", onTurnComplete): the listeners run inside emit,
\* in the order of the events.
Listen(s, env, evs, grace) ==
    IF evs = << >> THEN [pb |-> s, pbEnv |-> env]
    ELSE LET e == Head(evs) IN
         IF e.type = "audio"
         THEN Listen(onAudio(s, env.audio + 1),
                     [env EXCEPT !.audio = @ + 1,
                                 !.graceChunks = IF grace THEN @ \cup {env.audio + 1} ELSE @],
                     Tail(evs), grace)
         ELSE IF e.type = "interrupted"
         THEN Listen(stopAudioStreamer(s), [env EXCEPT !.interrupted = @ + 1],
                     Tail(evs), grace)
         ELSE IF e.type = "turncomplete"
         THEN Listen(onTurnComplete(s), [env EXCEPT !.turncomplete = @ + 1],
                     Tail(evs), grace)
         ELSE Listen(s, env, Tail(evs), grace)

\* A step of the client whose events reach the listeners of the hook.
SsDeliver(c2) ==
    LET heard == Listen(pb, pbEnv,
                        SubSeq(c2.emitted, Len(client.emitted) + 1, Len(c2.emitted)),
                        InGraceWindow(client))
    IN /\ client' = c2
       /\ pb' = heard.pb
       /\ pbEnv' = heard.pbEnv
       /\ clientEnv' = NotDisconnect(clientEnv)
       /\ UNCHANGED <<vad, vadEnv, gate, gateEnv, phr, rec, recEnv, mute, muteEnv>>

SsMessage == ClMessage(SessionFrames)

SsReceive ==
    \E i \in NextParse(client) :
        LET r == receive([client EXCEPT !.receives = RemoveAt(@, i)], client.receives[i])
        IN SsDeliver([r.client EXCEPT !.receives = @ \o r.paused])

SsReceiveResumes ==
    \E i \in 1..Len(client.receives) :
        /\ client.receives[i].stage = "pause"
        /\ client.receives[i].timer = 0
        /\ LET r == receiveBatch([client EXCEPT !.receives = RemoveAt(@, i)],
                                 client.receives[i])
           IN SsDeliver([r.client EXCEPT !.receives = @ \o r.paused])

SsTurnCompleteTimerFires ==
    \E i \in 1..Len(client.timers) :
        /\ client.timers[i].rem = 0
        /\ SsDeliver(onTurnCompleteTimer(client, i))

\* Time passes for the client and the hook together.
SsTick ==
    LET d == NextStep(clPending(client) \cup pbPending(pb), SessionTickMs)
    IN /\ d > 0
       /\ NextParse(client) = {}
       /\ client' = clPass(client, d)
       /\ pb' = pbPass(pb, d)
       /\ <<client', pb'>> # <<client, pb>>
       /\ UNCHANGED <<vad, vadEnv, pbEnv, gate, gateEnv, clientEnv, phr, rec, recEnv, mute, muteEnv>>

\* The session is connected again: connect() and disconnect() of the hook,
\* and its 'close' listener.  The frames are a tool call and a model turn
\* with an audio part and a text part.
ReconnectFrames ==
    {ToolCallFrame}
      \cup {f \in ServerContentFrames :
               /\ WellFormed(f) /\ f.modelTurn /\ ~f.interrupted /\ ~f.turnComplete
               /\ f.parts = <<AudioPart, TextPart>>}

\* connect() of the hook up to its await.
hookConnect(s, cl) ==
    LET c1 == connect(disconnect(cl, Null).client, Len(cl.sockets) + 1)
    IN [pb |-> [s EXCEPT !.connecting = @ \cup {Len(c1.sockets)}], client |-> c1]

\* connect() of the hook after its await: the promise of socket ws settled.
hookConnected(s, cl, ws) ==
    IF ws \in s.connecting /\ cl.sockets[ws].promise # "pending"
    THEN [s EXCEPT !.connecting = @ \ {ws},
                   !.connected = IF cl.sockets[ws].promise = "resolved" THEN TRUE ELSE @]
    ELSE s

\* The 'close' listener of the hook, for the events of one client step.
hookOnClose(s, evs) ==
    IF \E i \in 1..Len(evs) : evs[i].type = "close"
    THEN [s EXCEPT !.connected = FALSE]
    ELSE s

\* disconnect() of the hook.
hookDisconnect(s, cl) ==
    [pb |-> [s EXCEPT !.connected = FALSE], client |-> disconnect(cl, Null).client]

HkConnect ==
    /\ Len(client.sockets) < MaxSockets
    /\ pb' = hookConnect(pb, client).pb
    /\ client' = hookConnect(pb, client).client
    /\ clientEnv' = NotDisconnect(clientEnv)
    /\ UNCHANGED <<vad, vadEnv, pbEnv, gate, gateEnv, phr, rec, recEnv, mute, muteEnv>>

HkDisconnect ==
    /\ clientEnv.disconnects < MaxDisconnects
    /\ pb.connected
    /\ pb' = hookDisconnect(pb, client).pb
    /\ client' = hookDisconnect(pb, client).client
    /\ clientEnv' = [clientEnv EXCEPT !.disconnects = @ + 1]
    /\ UNCHANGED <<vad, vadEnv, pbEnv, gate, gateEnv, phr, rec, recEnv, mute, muteEnv>>

HkSocketOpens ==
    /\ \E ws \in 1..Len(client.sockets) :
          /\ client.sockets[ws].state = "connecting"
          /\ client' = onOpen(client, ws)
          /\ pb' = hookConnected(pb, onOpen(client, ws), ws)
          /\ pbEnv' = [pbEnv EXCEPT !.resolved =
                         IF ws \in pb.connecting /\ client'.sockets[ws].promise = "resolved"
                         THEN @ \cup {ws} ELSE @]
    /\ clientEnv' = NotDisconnect(clientEnv)
    /\ UNCHANGED <<vad, vadEnv, gate, gateEnv, phr, rec, recEnv, mute, muteEnv>>

HkSocketCloses ==
    /\ \E ws \in 1..Len(client.sockets) :
          /\ client.sockets[ws].state \in {"open", "closing"}
          /\ LET c1 == [client EXCEPT !.sockets[ws].state = "closed"]
                 c2 == IF c1.sockets[ws].onClose THEN onClose(c1, ws) ELSE c1
             IN /\ client' = c2
                /\ pb' = hookOnClose(pb, SubSeq(c2.emitted, Len(client.emitted) + 1,
                                                Len(c2.emitted)))
    /\ clientEnv' = NotDisconnect(clientEnv)
    /\ UNCHANGED <<vad, vadEnv, pbEnv, gate, gateEnv, phr, rec, recEnv, mute, muteEnv>>

HkMessage == ClMessage(ReconnectFrames)

(***************************************************************************)
(* Properties of the playback scheduler                                    *)
(***************************************************************************)

\* The chunks submitted to the output device, in order of submission.
Played(s) ==
    LET adds == SelectSeq(s.device, LAMBDA d : d.op = "addPCM16")
    IN [i \in 1..Len(adds) |-> adds[i].chunk]

Increasing(q) == \A i, j \in 1..Len(q) : i < j => q[i] < q[j]

IsPrefix(a, b) == Len(a) <= Len(b) /\ SubSeq(b, 1, Len(a)) = a

\* C1: the chunks submitted to the output device appear in the order they
\* were received (chunks are numbered by arrival); a step drops a chunk only
\* when it is an 'interrupted' event, and that step discards exactly the
\* chunks then in the queue: what was submitted stays, every other step keeps
\* every chunk either submitted or queued, a new chunk included.
C1_PlaybackOrderNoDrop ==
    [][ /\ IsPrefix(Played(pb), Played(pb'))
        /\ Increasing(Played(pb') \o pb'.audioBufferQueue)
        /\ IF pbEnv'.interrupted # pbEnv.interrupted
           THEN /\ Played(pb') = Played(pb)
                /\ pb'.audioBufferQueue = << >>
           ELSE Range(Played(pb')) \cup Range(pb'.audioBufferQueue)
                  = Range(Played(pb)) \cup Range(pb.audioBufferQueue)
                      \cup ((pbEnv.audio + 1)..pbEnv'.audio)
      ]_vars

\* C1 witness: a chunk was discarded by an interruption while an earlier and
\* a later chunk were submitted to the device.
C1_Witness ==
    \E i, j, k \in 1..pbEnv.audio :
        /\ i < j /\ j < k
        /\ i \in Range(Played(pb)) /\ k \in Range(Played(pb))
        /\ j \notin Range(Played(pb)) \cup Range(pb.audioBufferQueue)

\* C12: nothing is submitted to the output device before its initialization
\* has completed; until then every chunk that arrives is appended to the queue
\* and stays there (an interruption aside); the step that completes the
\* initialization submits the head of a non-empty queue itself and leaves the
\* drain loop running.
C12_DrainStartsWhenInitialized ==
    [][ /\ (~pb'.audioContextReadyRef => Played(pb') = << >>)
        /\ (~pb'.audioContextReadyRef /\ pbEnv'.interrupted = pbEnv.interrupted
              => pb'.audioBufferQueue
                   = pb.audioBufferQueue
                       \o [i \in 1..(pbEnv'.audio - pbEnv.audio) |-> pbEnv.audio + i])
        /\ (~pb.audioContextReadyRef /\ pb'.audioContextReadyRef
               /\ pb.audioBufferQueue # << >>
              => /\ Played(pb') = << Head(pb.audioBufferQueue) >>
                 /\ pb'.audioBufferQueue = Tail(pb.audioBufferQueue)
                 /\ pb'.isProcessingAudio
                 /\ pb'.drainTimers # << >>)
      ]_vars

\* C12 witness: two chunks arrived, at least one of them before the
\* initialization completed, and both were submitted in order without an
\* interruption.
C12_Witness ==
    /\ pbEnv.queuedAtInit
    /\ pbEnv.audio = 2 /\ pbEnv.interrupted = 0
    /\ Played(pb) = <<1, 2>>

\* C13: the step of an 'interrupted' event empties the queue, leaves no drain
\* timer and no speaking timer pending, resets the processing and speaking
\* flags, submits nothing and stops the output (when there is one); and any
\* step submits only chunks that were in the queue before it or arrived in
\* it, so a chunk discarded by an interruption is never submitted later.
C13_InterruptedClearsScheduler ==
    [][ /\ (pbEnv'.interrupted # pbEnv.interrupted
              => /\ pb'.audioBufferQueue = << >>
                 /\ pb'.drainTimers = << >>
                 /\ ~pb'.processingTimeoutRef
                 /\ pb'.speechTimeoutRef = Off
                 /\ ~pb'.isProcessingAudio
                 /\ ~pb'.isSpeakingRef
                 /\ Played(pb') = Played(pb)
                 /\ (pb.audioStreamerRef
                       => pb'.device = Append(pb.device, [op |-> "stop", chunk |-> 0])))
        /\ Range(Played(pb')) \ Range(Played(pb))
              \subseteq Range(pb.audioBufferQueue) \cup ((pbEnv.audio + 1)..pbEnv'.audio)
      ]_vars

\* C13 witness: an interruption has just stopped the output after a chunk
\* was submitted, discarding a queued chunk, and no timer of the drain loop
\* is left.
C13_Witness ==
    /\ pb.device # << >>
    /\ pb.device[Len(pb.device)].op = "stop"
    /\ Played(pb) # << >>
    /\ \E j \in 1..pbEnv.audio : j \notin Range(Played(pb))
    /\ pb.audioBufferQueue = << >>
    /\ pb.drainTimers = << >>

\* C14 (as claimed): an 'audio' event delivered between the 'interrupted'
\* event of a frame and the 'turncomplete' that follows it 700 ms later is
\* queued and discarded: its chunk is never submitted to the output device.
C14_GraceWindowAudioDiscarded ==
    \A c \in pbEnv.graceChunks : c \notin Range(Played(pb))

\* The frames written to socket ws, in order.
FramesOn(ws) == SelectSeq(client.wire, LAMBDA w : w.sock = ws)

\* C25 (as claimed): the first frame written to a socket is the Setup
\* message with the config given to the connect() call that created the
\* socket, written when the socket opens; a socket whose transport failed
\* has a rejected promise, is never this.ws and carries no frame; and a send
\* while this.ws is null throws and writes nothing.
C25_SetupFirstOrReject ==
    /\ \A ws \in 1..Len(client.sockets) :
          LET s == client.sockets[ws] IN
          /\ FramesOn(ws) # << >>
                => FramesOn(ws)[1].frame = [kind |-> "setup", body |-> s.config]
          /\ s.promise = "resolved" => FramesOn(ws) # << >>
          /\ s.promise = "rejected"
                => s.state = "closed" /\ client.ws # ws /\ FramesOn(ws) = << >>
    /\ (clientEnv.lastSend.op # "none" /\ clientEnv.lastSend.ws = Null
          => clientEnv.lastSend.threw /\ clientEnv.lastSend.frames = << >>)

\* The connection was closed: connect() had set this.ws and disconnect(),
\* called by the application or by the 'close' listener, has reset it.
ConnectionClosed ==
    /\ client.ws = Null
    /\ \E ws \in 1..Len(client.sockets) : client.sockets[ws].state \in {"closing", "closed"}

\* The events of the given types among the emitted ones.
EmittedOf(cl, types) == {i \in 1..Len(cl.emitted) : cl.emitted[i].type \in types}

\* C23 (as claimed): once the connection is closed no delayed 'turncomplete'
\* timer fires, no 'audio' or 'content' event of a frame still being
\* processed is emitted, and no queued chunk is submitted to the output
\* device.
C23_CloseCancelsEverything ==
    [][ConnectionClosed
         => /\ EmittedOf(client', {"turncomplete", "audio", "content"})
                 = EmittedOf(client, {"turncomplete", "audio", "content"})
            /\ pb'.device = pb.device]_vars

\* C31: with the output device initialized and no interruption, every chunk
\* in the playback queue is eventually submitted to the output device,
\* whether or not another event arrives after it.
C31_QueuedChunkEventuallyPlayed ==
    \A c \in 1..MaxAudio :
        (pb.audioContextReadyRef /\ c \in Range(pb.audioBufferQueue))
          ~> (c \in Range(Played(pb)))

\* C32: at most one drain loop is active: there is never more than one
\* pending per-chunk drain timer, a pending timer belongs to the loop that
\* is marked as processing, and a chunk leaves the queue only one at a time.
C32_OneDrainLoop ==
    /\ [](/\ Len(pb.drainTimers) <= 1
          /\ (pb.drainTimers # << >> => pb.isProcessingAudio))
    /\ [][Len(Played(pb')) <= Len(Played(pb)) + 1]_vars

\* C32 witness: after an interruption and a turn completion a drain loop is
\* running again, its timer pending, with chunks submitted before and after.
C32_Witness ==
    /\ pbEnv.interrupted > 0
    /\ pbEnv.turncomplete > 0
    /\ Len(pb.drainTimers) = 1
    /\ pb.audioBufferQueue # << >>
    /\ Len(Played(pb)) >= 2

\* C36: a frame that arrives on a socket after a later connect() has opened
\* a new socket produces no 'audio', 'content' or 'toolcall' event.
C36_OneSocketFeedsEvents ==
    \A i \in EmittedOf(client, {"audio", "content", "toolcall"}) :
        client.emitted[i].frame \notin clientEnv.late

\* C37: once connect() of the hook has resolved for a socket, 'connected' is
\* true for as long as that socket is open and in use.
C37_ConnectedWhileSocketOpen ==
    \A ws \in 1..Len(client.sockets) :
        (ws \in pbEnv.resolved /\ client.ws = ws /\ client.sockets[ws].state = "open")
          => pb.connected

\* What the scheduler has drained and has still to drain.
DrainView(s) ==
    [queue |-> s.audioBufferQueue, device |-> s.device,
     processing |-> s.isProcessingAudio, timers |-> s.drainTimers]

\* C29: the speaking flag and the last-speech-end time are advisory: when a
\* chunk is delivered, what is queued, what is submitted to the device and
\* whether the drain runs are what they would be with the flag down and the
\* last speech long over.
C29_SpeakingFlagAdvisory ==
    [][pbEnv'.audio = pbEnv.audio + 1
         => DrainView(pb')
              = DrainView(onAudio([pb EXCEPT !.isSpeakingRef = FALSE,
                                             !.sinceSpeechEnd = SinceCap],
                                  pbEnv'.audio))]_vars

(***************************************************************************)
(* Properties of the protocol client                                       *)
(***************************************************************************)

EventsOf(cl, type, fid) ==
    {i \in 1..Len(cl.emitted) : cl.emitted[i].type = type /\ cl.emitted[i].frame = fid}

\* C5: disconnect() on the current connection returns true; called twice in a
\* row, the first call returning true, the second returns false and changes
\* nothing; and a connection emits at most one 'close' event, exactly one
\* once its socket has closed.
C5_DisconnectIdempotent ==
    /\ (clientEnv.last.ws # Null => clientEnv.last.ret)
    /\ (clientEnv.last.inRow /\ clientEnv.last.prevRet
           => ~clientEnv.last.ret /\ clientEnv.last.same)
    /\ \A ws \in 1..Len(client.sockets) :
          /\ Cardinality(EventsOf(client, "close", ws)) <= 1
          /\ (client.sockets[ws].state = "closed" /\ client.sockets[ws].onClose
                => Cardinality(EventsOf(client, "close", ws)) = 1)
          /\ (client.sockets[ws].state # "closed"
                => EventsOf(client, "close", ws) = {})

\* C5 witness: two disconnect() calls in a row returned true then false, and
\* the connection closed by the first has emitted its 'close' event.
C5_Witness ==
    /\ clientEnv.last.inRow /\ clientEnv.last.prevRet /\ ~clientEnv.last.ret
    /\ \E ws \in 1..Len(client.sockets) :
          /\ client.sockets[ws].state = "closed"
          /\ Cardinality(EventsOf(client, "close", ws)) = 1

\* The frames receive() has started to handle (blobToJSON has resolved).
Handled(fid) ==
    \A i \in 1..Len(client.receives) :
        client.receives[i].id = fid => client.receives[i].stage # "parse"

TimersOf(cl, fid) == {i \in 1..Len(cl.timers) : cl.timers[i].frame = fid}

\* C6: for an interrupted ServerContent frame, 'interrupted' is emitted as
\* soon as the frame is handled, exactly once; 'turncomplete' is emitted for
\* it exactly once, 700 ms later and after 'interrupted' (until then exactly
\* one timer for it is pending); nothing is emitted before the frame is handled.
C6_InterruptedThenTurnComplete ==
    \A fid \in 1..Len(clientEnv.log) :
        LET f == clientEnv.log[fid]
            I == EventsOf(client, "interrupted", fid)
            T == EventsOf(client, "turncomplete", fid)
        IN isServerContentMessage(f) /\ isInterrupted(f) =>
             IF Handled(fid)
             THEN /\ Cardinality(I) = 1
                  /\ Cardinality(T) + Cardinality(TimersOf(client, fid)) = 1
                  /\ \A t \in T : /\ client.emitted[t].after = 700
                                  /\ \A i \in I : i < t
             ELSE I = {} /\ T = {} /\ TimersOf(client, fid) = {}

\* C6 witness: an interrupted frame that also carries turnComplete has had
\* both of its events emitted.
C6_Witness ==
    \E fid \in 1..Len(clientEnv.log) :
        /\ isInterrupted(clientEnv.log[fid]) /\ isTurnComplete(clientEnv.log[fid])
        /\ EventsOf(client, "interrupted", fid) # {}
        /\ EventsOf(client, "turncomplete", fid) # {}

\* C11 (as claimed): a send method called while the client's socket is open
\* writes exactly one frame of its shape to that socket and logs it; called
\* while no socket is open it throws, writes nothing, emits no log event and
\* leaves the client as it was.
C11_SendNeedsOpenSocket ==
    LET c == clientEnv.lastSend IN
    c.op # "none" =>
       /\ c.ready => /\ ~c.threw
                     /\ Len(c.frames) = 1
                     /\ c.frames[1].sock = c.ws
                     /\ c.frames[1].frame.kind = c.op
                     /\ Len(c.logs) = 1
       /\ ~c.anyOpen => /\ c.threw
                        /\ c.frames = << >>
                        /\ c.logs = << >>
                        /\ c.same

\* The audio parts of a frame that carry data.
DataAudioParts(f) ==
    {i \in 1..Len(f.parts) :
        f.parts[i].kind = "audio" /\ f.parts[i].mimeType = "audio/pcm" /\ f.parts[i].data}

\* The receive() call of a frame has run to its end.
Finished(fid) == \A i \in 1..Len(client.receives) : client.receives[i].id # fid

\* C15 (as claimed): for a frame with turnComplete that is not interrupted,
\* 'turncomplete' is emitted exactly once, 150 ms after the frame is handled;
\* the model turn of the frame is still processed; and when 'turncomplete'
\* is emitted every audio part of the frame has had its 'audio' event.
C15_TurnCompleteAfterAudio ==
    \A fid \in 1..Len(clientEnv.log) :
        LET f == clientEnv.log[fid]
            T == EventsOf(client, "turncomplete", fid)
            A == EventsOf(client, "audio", fid)
        IN isServerContentMessage(f) /\ ~isInterrupted(f) /\ isTurnComplete(f)
             /\ Handled(fid)
           => /\ Cardinality(T) + Cardinality(TimersOf(client, fid)) = 1
              /\ \A t \in T : client.emitted[t].after = TURN_COMPLETE_DELAY
              /\ (Finished(fid) => Cardinality(A) = Cardinality(DataAudioParts(f)))
              /\ (T # {} => /\ Cardinality(A) = Cardinality(DataAudioParts(f))
                            /\ \A t \in T, a \in A : a < t)

\* The audio parts of frame fid that receive() has passed so far: all of them
\* once the call has ended, the first r.i of them while it pauses.
AudioPartsPassed(fid) ==
    LET f == clientEnv.log[fid]
        idx == AudioIndices(f.parts)
        paused == {i \in 1..Len(client.receives) : client.receives[i].id = fid}
    IN IF paused = {}
       THEN Range(idx)
       ELSE LET r == client.receives[CHOOSE i \in paused : TRUE]
            IN {idx[k] : k \in 1..Min(r.i, Len(idx))}

\* The demultiplexing of frame fid, given the audio parts that count: the
\* 'audio' events of the frame are those of the counted parts passed so far,
\* one each, in part order; the call pauses only between batches of three;
\* when it has ended, the other parts, if any, were emitted as one 'content'
\* event after the audio events, and no 'content' event otherwise.
Demultiplexed(fid, counted) ==
    LET f == clientEnv.log[fid]
        A == EventsOf(client, "audio", fid)
        K == EventsOf(client, "content", fid)
        other == OtherIndices(f.parts)
    IN /\ {client.emitted[a].part : a \in A} = counted \cap AudioPartsPassed(fid)
       /\ \A a, b \in A : a < b => client.emitted[a].part < client.emitted[b].part
       /\ \A i \in 1..Len(client.receives) :
             client.receives[i].id = fid
               => /\ client.receives[i].i % BATCH_SIZE = 0
                  /\ client.receives[i].i < Len(AudioIndices(f.parts))
                  /\ client.receives[i].timer \in 0..BATCH_PAUSE
                  /\ K = {}
       /\ Finished(fid)
            => /\ Cardinality(K) = IF Len(other) > 0 THEN 1 ELSE 0
               /\ \A k \in K : /\ client.emitted[k].part = other
                                /\ \A a \in A : a < k

\* A frame whose model turn receive() demultiplexes.
IsModelTurnFrame(fid) ==
    LET f == clientEnv.log[fid]
    IN isServerContentMessage(f) /\ ~isInterrupted(f) /\ isModelTurn(f) /\ Handled(fid)

FrameEventTypes ==
    {"toolcall", "toolcallcancellation", "setupcomplete",
     "interrupted", "turncomplete", "audio", "content"}

EventsOfFrame(fid) ==
    {i \in 1..Len(client.emitted) :
        client.emitted[i].frame = fid /\ client.emitted[i].type \in FrameEventTypes}

\* The events of each variant of inbound message; none for a frame of no variant.
VariantEvents(f) ==
    IF isToolCallMessage(f) THEN {"toolcall"}
    ELSE IF isToolCallCancellationMessage(f) THEN {"toolcallcancellation"}
    ELSE IF isSetupCompleteMessage(f) THEN {"setupcomplete"}
    ELSE IF isServerContentMessage(f) THEN {"interrupted", "turncomplete", "audio", "content"}
    ELSE {}

\* Frame fid was handled as its variant: only the events of that variant
\* were emitted for it, exactly one for a tool call, a cancellation and a
\* setup acknowledgement, and none before blobToJSON resolved.
DispatchedAsVariant(fid) ==
    LET f == clientEnv.log[fid]
        E == EventsOfFrame(fid)
    IN /\ \A e \in E : client.emitted[e].type \in VariantEvents(f)
       /\ (~Handled(fid) => E = {})
       /\ (Handled(fid) /\ ~isServerContentMessage(f)
             => Cardinality(E) = Cardinality(VariantEvents(f)))

\* In this step receive() handles call i, whose frame matches no variant.
HandlesUnmatched(i) ==
    /\ i \in NextParse(client)
    /\ VariantEvents(client.receives[i].frame) = {}
    /\ \A j \in 1..Len(client'.receives) : client'.receives[j].id # client.receives[i].id

\* C17: every received frame is handled as exactly one of ToolCall,
\* ToolCallCancellation, SetupComplete or ServerContent, emitting only that
\* variant's events; handling a frame that matches none of them changes
\* nothing in the client but the end of the call itself: no event, no log,
\* the socket and this.ws untouched, the other calls and timers as before.
C17_DispatchOneVariant ==
    /\ [](\A fid \in 1..Len(clientEnv.log) : DispatchedAsVariant(fid))
    /\ [][\A i \in 1..Len(client.receives) :
            HandlesUnmatched(i)
              => client' = [client EXCEPT !.receives = RemoveAt(@, i)]]_vars

\* C17 witness: an unmatched frame was handled on the open socket; after it
\* a frame that arrived later was handled and emitted its event, and a send
\* made after the unmatched frame wrote its frame to the socket.
C17_Witness ==
    \E fid, gid \in 1..Len(clientEnv.log) :
        /\ fid < gid
        /\ VariantEvents(clientEnv.log[fid]) = {}
        /\ Handled(fid) /\ Handled(gid)
        /\ EventsOfFrame(gid) # {}
        /\ client.ws # Null /\ client.sockets[client.ws].state = "open"
        /\ fid \in clientEnv.lastSend.handled
        /\ clientEnv.lastSend.ready /\ ~clientEnv.lastSend.threw
        /\ Len(clientEnv.lastSend.frames) = 1

\* C7 (as claimed): 'audio' events are emitted in the order of arrival of
\* their frames: no 'audio' event of a later frame precedes one of an
\* earlier frame.
C7_AudioInFrameOrder ==
    \A i, j \in 1..Len(client.emitted) :
        /\ i < j
        /\ client.emitted[i].type = "audio"
        /\ client.emitted[j].type = "audio"
        => client.emitted[i].frame <= client.emitted[j].frame

(***************************************************************************)
(* Properties of the intent gate                                           *)
(***************************************************************************)

\* The tool responses written to the socket that carry the id of a call.
ResponsesTo(id) ==
    {i \in 1..Len(client.wire) :
        /\ client.wire[i].frame.kind = "toolResponse"
        /\ client.wire[i].frame.body.id = id}

\* The onToolCall calls past acceptance that serve the call with this id.
HandlersOf(id) == {h \in 1..Len(gate.handlers) : gate.handlers[h].id = id}

\* The backend calls started so far for the call with this id.
FetchesOf(id) == {h \in HandlersOf(id) : gate.handlers[h].fetch # "none"}

\* The function calls of the 'toolcall' events seen so far: <<event, position>>.
IssuedCalls ==
    {ep \in (1..Len(gateEnv.calls)) \X (1..2) :
        ep[2] <= Len(gateEnv.calls[ep[1]].functionCalls)}

IdOf(ep) == CallId(gateEnv.calls[ep[1]].frame, ep[2])

ArgsOf(ep) == gateEnv.calls[ep[1]].functionCalls[ep[2]]

\* C2 (as claimed): every function call of every ToolCall message gets
\* exactly one tool response with its id: never two, and one as soon as
\* onToolCall has finished with the message (at once when the call is not
\* accepted, at the end of the side effect when it is).
C2_OneResponsePerCall ==
    \A ep \in IssuedCalls :
        /\ Cardinality(ResponsesTo(IdOf(ep))) <= 1
        /\ (\A h \in HandlersOf(IdOf(ep)) : gate.handlers[h].stage = "done")
              => Cardinality(ResponsesTo(IdOf(ep))) = 1

\* C3 (as claimed): a call whose rawText equals that of the last accepted
\* call, less than 2000 ms after it, starts no backend call and is
\* acknowledged as a duplicate.
C3_ExactDuplicateAcknowledged ==
    \A ep \in IssuedCalls :
        LET c == gateEnv.calls[ep[1]] IN
        ArgsOf(ep).rawText = c.prevText /\ c.inTextWindow
          => /\ HandlersOf(IdOf(ep)) = {}
             /\ \E i \in ResponsesTo(IdOf(ep)) :
                   client.wire[i].frame.body.duplicateType # "none"

\* A call with the (action, target) pair of the last accepted call, other
\* words, less than 3500 ms after it.
Rephrased(ep) ==
    LET c == gateEnv.calls[ep[1]] IN
    /\ ActionTargetKey(ArgsOf(ep).action, ArgsOf(ep).target) = c.prevKey
    /\ ArgsOf(ep).rawText # c.prevText
    /\ c.inActionWindow

\* C4: a call with the same (action, target) pair as the last accepted call
\* and a different rawText, less than 3500 ms after it, is never accepted and
\* starts no backend call: the pair keeps its one backend call.
C4_RephrasedNoSecondSideEffect ==
    \A ep \in IssuedCalls :
        Rephrased(ep) => HandlersOf(IdOf(ep)) = {} /\ FetchesOf(IdOf(ep)) = {}

\* C4 witness: a rephrased call arrived after the lock of the first was
\* released, inside the 3500 ms window but outside the 2000 ms one, and was
\* answered as an action+target duplicate; the first had its backend call.
\* C26: when a tool call arrives 1000 ms after an accepted one, with the
\* same action and target and a different raw text, it is acknowledged with
\* the action+target duplicate type, it is skipped (no handler starts), and
\* the backend is still called once for the pair.
C26_RephrasedAfterOneSecond ==
    [][\A i \in NextParse(client) :
          LET r == client.receives[i]
              pos == FindLogIntent(r.frame.functionCalls)
              fc == r.frame.functionCalls[pos]
          IN (/\ isToolCallMessage(r.frame)
              /\ Len(gateEnv'.calls) = Len(gateEnv.calls) + 1
              /\ pos # 0
              /\ gate.sinceLastIntent = THROTTLE_INTERVAL
              /\ ActionTargetKey(fc.action, fc.target) = gate.lastActionTargetRef
              /\ fc.rawText # gate.lastIntentTextRef)
             => /\ Len(client'.wire) = Len(client.wire) + 1
                /\ client'.wire[Len(client'.wire)].frame
                     = [kind |-> "toolResponse",
                        body |-> ToolResponse(CallId(r.id, pos), TRUE, FALSE,
                                              "actionTarget", "none")]
                /\ gate' = gate]_vars

\* C28: the lock is held from the acceptance of a call until 2000 ms after
\* the tool response of that call was sent: while the lock is free every
\* accepted call has been acknowledged and no release is pending, the release
\* timer is started with 2000 ms in the step that sends the acknowledgement,
\* and the lock is freed only when that timer is due.
C28_LockHeldUntilAcknowledged ==
    /\ [](~gate.processingIntentRef
            => /\ gate.releaseTimers = << >>
               /\ \A h \in 1..Len(gate.handlers) :
                     /\ gate.handlers[h].stage = "done"
                     /\ ResponsesTo(gate.handlers[h].id) # {})
    /\ [][/\ Len(gate'.releaseTimers) > Len(gate.releaseTimers)
             => /\ gate'.releaseTimers[Len(gate'.releaseTimers)] = RELEASE_DELAY
                /\ Len(client'.wire) > Len(client.wire)
                /\ client'.wire[Len(client'.wire)].frame.kind = "toolResponse"
                /\ \E h \in 1..Len(gate.handlers) :
                      /\ gate.handlers[h].stage # "done"
                      /\ gate'.handlers[h].stage = "done"
                      /\ client'.wire[Len(client'.wire)].frame.body.id = gate.handlers[h].id
          /\ gate.processingIntentRef /\ ~gate'.processingIntentRef
             => gate.releaseTimers # << >> /\ Head(gate.releaseTimers) = 0]_vars

\* C33: the lock is held for more than 2000 ms after every acceptance; a
\* tool call that arrives less than 2000 ms after the previous acceptance is
\* answered 'skipped' by the lock; and no tool response ever carries the
\* duplicate type 'exact' or 'throttled'.
C33_LockMasksExactAndThrottled ==
    /\ [](/\ (gate.handlers # << >> /\ gate.sinceLastIntent <= TEXT_DEBOUNCE_THRESHOLD
               => gate.processingIntentRef)
          /\ \A i \in 1..Len(client.wire) :
                client.wire[i].frame.kind = "toolResponse"
                  => client.wire[i].frame.body.duplicateType \notin {"exact", "throttled"})
    /\ [][\A i \in NextParse(client) :
            LET r == client.receives[i]
                pos == FindLogIntent(r.frame.functionCalls)
            IN (/\ isToolCallMessage(r.frame)
                /\ Len(gateEnv'.calls) = Len(gateEnv.calls) + 1
                /\ pos # 0
                /\ gate.sinceLastIntent < TEXT_DEBOUNCE_THRESHOLD)
               => /\ gate' = gate
                  /\ Len(client'.wire) = Len(client.wire) + 1
                  /\ client'.wire[Len(client'.wire)].frame
                       = [kind |-> "toolResponse",
                          body |-> ToolResponse(CallId(r.id, pos), TRUE, TRUE,
                                                "none", "none")]]_vars

\* C34: the lock taken by an accepted call is eventually released, however
\* the backend call and the sends on the client end.
C34_LockEventuallyReleased ==
    gate.processingIntentRef ~> ~gate.processingIntentRef

\* What the gate keeps to tell duplicates: the last accepted text and
\* action:target key, the time since the last acceptance, the lock and the
\* intent log.
DedupState(g) ==
    [text |-> g.lastIntentTextRef, key |-> g.lastActionTargetRef,
     since |-> g.sinceLastIntent, lock |-> g.processingIntentRef,
     intents |-> g.intents]

\* C35: a tool call that is not accepted (skipped by the lock, or a
\* duplicate) leaves the dedup state as it was; the last text, key and
\* acceptance time change only in the step that accepts a call, to the
\* values of that call, and that step takes the lock.
C35_SkippedCallLeavesState ==
    [][LET accepted == Len(gate'.handlers) > Len(gate.handlers) IN
       /\ (Len(gateEnv'.calls) > Len(gateEnv.calls) /\ ~accepted
             => DedupState(gate') = DedupState(gate))
       /\ (\/ gate'.lastIntentTextRef # gate.lastIntentTextRef
           \/ gate'.lastActionTargetRef # gate.lastActionTargetRef
           \/ gate'.sinceLastIntent < gate.sinceLastIntent
             => /\ accepted
                /\ Len(gateEnv'.calls) > Len(gateEnv.calls)
                /\ ~gate.processingIntentRef /\ gate'.processingIntentRef
                /\ LET h == gate'.handlers[Len(gate'.handlers)] IN
                   /\ gate'.lastIntentTextRef = h.rawText
                   /\ gate'.lastActionTargetRef = ActionTargetKey(h.action, h.target)
                   /\ gate'.sinceLastIntent = 0
                   /\ gate'.intents = gate.intents)]_vars

\* C35 witness: after an accepted call was carried out and the lock released,
\* a call with another text was answered as an action+target duplicate, and
\* the gate still holds the text of the accepted call and its one intent.
C35_Witness ==
    /\ Len(gate.handlers) = 1
    /\ Len(gateEnv.calls) = 2
    /\ ~gate.processingIntentRef
    /\ Len(gate.intents) = 1
    /\ gate.lastIntentTextRef = gate.handlers[1].rawText
    /\ \E j \in 1..Len(client.wire) :
          /\ client.wire[j].frame.kind = "toolResponse"
          /\ client.wire[j].frame.body.duplicateType = "actionTarget"
    /\ \E pos \in 1..Len(gateEnv.calls[2].functionCalls) :
          /\ pos = FindLogIntent(gateEnv.calls[2].functionCalls)
          /\ gateEnv.calls[2].functionCalls[pos].rawText # gate.lastIntentTextRef

C4_Witness ==
    \E ep \in IssuedCalls :
        /\ Rephrased(ep)
        /\ ~gateEnv.calls[ep[1]].locked
        /\ ~gateEnv.calls[ep[1]].inTextWindow
        /\ \E i \in ResponsesTo(IdOf(ep)) :
              client.wire[i].frame.body.duplicateType = "actionTarget"
        /\ \E h \in 1..Len(gate.handlers) :
              /\ ActionTargetKey(gate.handlers[h].action, gate.handlers[h].target)
                   = gateEnv.calls[ep[1]].prevKey
              /\ gate.handlers[h].fetch # "none"

\* C8 (as claimed): an accepted call is resolved within the budget of its
\* side effect (the delays and the hard timeout), and a resolved call has a
\* tool response with its id: success:false when the side effect failed.
C8_AcceptedCallResolved ==
    \A h \in 1..Len(gate.handlers) :
        /\ gate.handlers[h].elapsed > SideEffectBudget => gate.handlers[h].stage = "done"
        /\ gate.handlers[h].stage = "done" => ResponsesTo(gate.handlers[h].id) # {}

\* The calls that reached the gate, in the order onToolCall classified them,
\* and the id of the function call each of them is about.
ClassifiedCalls ==
    {c \in 1..Len(gateEnv.calls) : FindLogIntent(gateEnv.calls[c].functionCalls) # 0}

GateId(c) == CallId(gateEnv.calls[c].frame, FindLogIntent(gateEnv.calls[c].functionCalls))

\* C18 (as claimed): tool responses are sent in the order the calls are
\* classified: when call a reached the gate before call b and b has its
\* response, the response for a was sent before it.
C18_ResponsesInCallOrder ==
    \A a, b \in ClassifiedCalls :
        a < b /\ ResponsesTo(GateId(b)) # {}
          => \E i \in ResponsesTo(GateId(a)) : \A j \in ResponsesTo(GateId(b)) : i < j

\* C9 (as claimed): every call that arrives while the lock is held is
\* acknowledged at once with a skipped response, is not accepted (no backend
\* call) and adds nothing to the intent log.
C9_LockedCallSkipped ==
    \A ep \in IssuedCalls :
        gateEnv.calls[ep[1]].locked
          => /\ \E i \in ResponsesTo(IdOf(ep)) : client.wire[i].frame.body.skipped
             /\ HandlersOf(IdOf(ep)) = {}

\* C10 (as claimed): at most one backend call is unresolved at any time.
C10_OneFetchInFlight ==
    Cardinality({h \in 1..Len(gate.handlers) : gate.handlers[h].fetch = "pending"}) <= 1

(***************************************************************************)
(* 5. The microphone segmenter: voice-activity detection of AudioInput     *)
(***************************************************************************)

START_LEVEL == 5
SILENCE_LEVEL == 5
SILENCE_MS == 1500
SAMPLE_RATE == 16000

\* processorOptions.bufferSize of the capture worklet.
BufferSize == 4096

\* Blocks of microphone samples the worklet posts.
MaxBlocks == 5

\* Texts the model sends (handleGeminiText calls).
MaxTexts == 1

\* Times the microphone is switched on.
MaxToggles == 2

\* Notifications the backend pushes.
MaxMessages == 3

\* The time one block of samples takes.
BlockMs == (BufferSize * 1000) \div SAMPLE_RATE

\* A block is handled one block time after the previous one, or later when
\* the main thread was busy.
BlockGaps == {BlockMs, SILENCE_MS \div 2}

\* Levels of a block in percent: below, at and above the thresholds.
Levels == {SILENCE_LEVEL - 3, SILENCE_LEVEL, START_LEVEL + 7}

\* now - lastVoiceMsRef.current is not told apart beyond this.
VoiceAgeCap == SILENCE_MS + 1

vadInit ==
    [ isStreaming      |-> FALSE,       \* the microphone is switched on
      active           |-> FALSE,       \* the worklet effect is set up
      speakingRef      |-> FALSE,
      userChunksRef    |-> << >>,       \* the blocks of the current segment
      sinceVoice       |-> VoiceAgeCap, \* now - lastVoiceMsRef
      modelSpeakingRef |-> FALSE,
      audioLevel       |-> 0,           \* the level meter (setAudioLevel)
      sent             |-> 0,           \* chunks streamed to Gemini
      pending          |-> << >>,       \* flushUserAudio calls awaiting transcription
      transcripts      |-> << >>,       \* onTranscription calls, in order
      queries          |-> 0,           \* browser queries posted to the backend
      audioCalls       |-> << >>,       \* pauseAudio / resumeAudio calls on the Gemini socket
      utterances       |-> << >>,       \* messages queued in speechSynthesis
      spoken           |-> << >> ]      \* messages spoken to the end

\* flushUserAudio that leaves the segmenter speaking.
flushUserAudioKeepsSpeaking(v) ==
    IF ~v.speakingRef \/ v.userChunksRef = << >>
    THEN v
    ELSE [v EXCEPT !.userChunksRef = << >>,
                   !.pending = Append(@, [segment |-> v.userChunksRef, gemini |-> FALSE])]

\* flushUserAudio that leaves the segment in the accumulator.
flushUserAudioKeepsChunks(v) ==
    IF ~v.speakingRef \/ v.userChunksRef = << >>
    THEN v
    ELSE [v EXCEPT !.speakingRef = FALSE,
                   !.pending = Append(@, [segment |-> v.userChunksRef, gemini |-> FALSE])]

\* flushUserAudio up to its first await: the segment is taken out of the
\* accumulator and handed to pcmToWav and transcribeAudio.
flushUserAudio(v) ==
    IF ~v.speakingRef \/ v.userChunksRef = << >>
    THEN v
    ELSE [v EXCEPT !.userChunksRef = << >>,
                   !.speakingRef = FALSE,
                   !.pending = Append(@, [segment |-> v.userChunksRef, gemini |-> FALSE])]

onTranscription(v, speaker, segment) ==
    [v EXCEPT !.transcripts = Append(@, [speaker |-> speaker, segment |-> segment])]

\* handleGeminiText: the model's text is reported after the pending
\* utterance, if any, has been flushed and transcribed.
handleGeminiText(v) ==
    LET w == flushUserAudio(v) IN
    IF w = v
    THEN onTranscription(v, "gemini", << >>)
    ELSE [w EXCEPT !.pending[Len(w.pending)].gemini = TRUE]

\* The ways a transcription settles: with a text, with a text that is a
\* browser query, or with an error.
Outcomes == {"text", "query", "error"}

\* The rest of flushUserAudio once the transcription has settled.
onTranscribed(v, i, outcome) ==
    LET p == v.pending[i]
        v0 == [v EXCEPT !.pending = SubSeq(@, 1, i - 1) \o SubSeq(@, i + 1, Len(@))]
        v1 == IF outcome = "error" THEN v0 ELSE onTranscription(v0, "human", p.segment)
        v2 == IF outcome = "query" THEN [v1 EXCEPT !.queries = @ + 1] ELSE v1
    IN IF p.gemini THEN onTranscription(v2, "gemini", << >>) ELSE v2

\* onmessage that buffers the block also while the model speaks.
onmessageNoInterlock(v, level, c) ==
    LET v0 == [v EXCEPT !.audioLevel = level]
        v1 == IF level >= START_LEVEL /\ ~v0.modelSpeakingRef
              THEN [v0 EXCEPT !.speakingRef = TRUE,
                              !.userChunksRef = IF v0.speakingRef THEN @ ELSE << >>,
                              !.sinceVoice = 0]
              ELSE v0
        v2 == IF v1.speakingRef
              THEN [v1 EXCEPT !.userChunksRef = Append(@, c)]
              ELSE v1
        v3 == [v2 EXCEPT !.sent = @ + 1]
    IN IF /\ v3.speakingRef
          /\ ~v3.modelSpeakingRef
          /\ level <= SILENCE_LEVEL
          /\ v3.sinceVoice > SILENCE_MS
       THEN flushUserAudio(v3)
       ELSE v3

\* workletRef.port.onmessage for block c of the given level; v.sinceVoice
\* is the age of the last voice at the time of the call.
onmessage(v, level, c) ==
    LET v0 == [v EXCEPT !.audioLevel = level]
        v1 == IF level >= START_LEVEL /\ ~v0.modelSpeakingRef
              THEN [v0 EXCEPT !.speakingRef = TRUE,
                              !.userChunksRef = IF v0.speakingRef THEN @ ELSE << >>,
                              !.sinceVoice = 0]
              ELSE v0
        v2 == IF v1.speakingRef /\ ~v1.modelSpeakingRef
              THEN [v1 EXCEPT !.userChunksRef = Append(@, c)]
              ELSE v1
        v3 == [v2 EXCEPT !.sent = @ + 1]
    IN IF /\ v3.speakingRef
          /\ ~v3.modelSpeakingRef
          /\ level <= SILENCE_LEVEL
          /\ v3.sinceVoice > SILENCE_MS
       THEN flushUserAudio(v3)
       ELSE v3

\* toggleMicrophone while streaming; the worklet effect is cleaned up when
\* the component renders again, and until then its handler takes the
\* messages the worklet had posted.
stopMicrophone(v) ==
    [v EXCEPT !.isStreaming = FALSE, !.speakingRef = FALSE, !.userChunksRef = << >>]

\* What has happened since the last block above the silence threshold, in
\* the terms of the level stream: whether a block above the start threshold
\* opened it, for how long the level has been below (quietFor) and at or
\* below (lowFor) the silence threshold, whether the segmenter was speaking
\* when the level came down, and the flushes since.
ScenarioOff ==
    [ open |-> FALSE, quietFor |-> Off, flushes |-> 0, quietAfterFlush |-> FALSE,
      lowFor |-> Off, lowFromSpeaking |-> FALSE, lowFlushed |-> FALSE ]

\* lastLevel and lastMuted: the level of the last block, and whether the model
\* was speaking when it was handled.
vadEnvInit ==
    [messages |-> 0, blocks |-> 0, texts |-> 0, scen |-> ScenarioOff, lastLevel |-> 0, lastMuted |-> FALSE,
     flushed |-> << >>, toggles |-> 0]

\* The segments flushed so far, with the caller of the flush: v is the
\* segmenter before the call, w after.
Flushed(env, v, w, by) ==
    IF Len(w.pending) > Len(v.pending)
    THEN Append(env.flushed, [segment |-> w.pending[Len(w.pending)].segment, by |-> by])
    ELSE env.flushed

Elapsed(t, gap) == IF t = Off THEN 0 ELSE Min(t + gap, VoiceAgeCap)

\* The scenario after a block: v is the segmenter before the block, w after.
ScenarioStep(s, v, w, level, gap) ==
    LET flushedNow == Len(w.pending) > Len(v.pending) IN
    IF v.modelSpeakingRef
    THEN ScenarioOff
    ELSE IF level > SILENCE_LEVEL
    THEN [ScenarioOff EXCEPT !.open = level > START_LEVEL]
    ELSE LET low == [s EXCEPT
                       !.lowFor = Elapsed(s.lowFor, gap),
                       !.lowFromSpeaking = IF s.lowFor = Off THEN v.speakingRef ELSE @,
                       !.lowFlushed = @ \/ flushedNow]
         IN IF level < SILENCE_LEVEL
            THEN [low EXCEPT !.quietFor = Elapsed(s.quietFor, gap),
                             !.flushes = @ + (IF flushedNow THEN 1 ELSE 0),
                             !.quietAfterFlush = @ \/ s.flushes > 0]
            ELSE [low EXCEPT !.quietFor = Off, !.flushes = 0, !.quietAfterFlush = FALSE]

\* The microphone is switched on and the worklet is set up.
VadStartMicrophone ==
    /\ ~vad.isStreaming /\ ~vad.active
    /\ vadEnv.toggles < MaxToggles
    /\ vad' = [vad EXCEPT !.isStreaming = TRUE, !.active = TRUE]
    /\ vadEnv' = [vadEnv EXCEPT !.scen = ScenarioOff, !.toggles = @ + 1]
    /\ UNCHANGED <<pb, pbEnv, gate, gateEnv, client, clientEnv, phr, rec, recEnv, mute, muteEnv>>

VadStopMicrophone ==
    /\ vad.isStreaming
    /\ vad' = stopMicrophone(vad)
    /\ vadEnv' = [vadEnv EXCEPT !.scen = ScenarioOff]
    /\ UNCHANGED <<pb, pbEnv, gate, gateEnv, client, clientEnv, phr, rec, recEnv, mute, muteEnv>>

\* The clean-up of the worklet effect after the microphone was switched off.
VadEffectCleanup ==
    /\ ~vad.isStreaming /\ vad.active
    /\ vad' = [vad EXCEPT !.active = FALSE]
    /\ vadEnv' = [vadEnv EXCEPT !.scen = ScenarioOff]
    /\ UNCHANGED <<pb, pbEnv, gate, gateEnv, client, clientEnv, phr, rec, recEnv, mute, muteEnv>>

\* The worklet posts a block of samples.
VadBlock ==
    /\ vad.active
    /\ vadEnv.blocks < MaxBlocks
    /\ \E level \in Levels, gap \in BlockGaps :
          LET v == [vad EXCEPT !.sinceVoice = Min(@ + gap, VoiceAgeCap)]
              w == onmessage(v, level, vadEnv.blocks + 1)
          IN /\ vad' = w
             /\ vadEnv' = [vadEnv EXCEPT
                   !.blocks = @ + 1,
                   !.scen = ScenarioStep(vadEnv.scen, v, w, level, gap),
                   !.lastLevel = level,
                   !.lastMuted = v.modelSpeakingRef,
                   !.flushed = Flushed(vadEnv, v, w, "silence")]
    /\ UNCHANGED <<pb, pbEnv, gate, gateEnv, client, clientEnv, phr, rec, recEnv, mute, muteEnv>>

\* The playback callback of the Gemini socket: the model starts or stops
\* speaking.
VadModelSpeaking ==
    /\ \E playing \in BOOLEAN :
          /\ playing # vad.modelSpeakingRef
          /\ vad' = [vad EXCEPT !.modelSpeakingRef = playing]
    /\ vadEnv' = [vadEnv EXCEPT !.scen = ScenarioOff]
    /\ UNCHANGED <<pb, pbEnv, gate, gateEnv, client, clientEnv, phr, rec, recEnv, mute, muteEnv>>

\* The Gemini socket reports a text of the model.
VadGeminiText ==
    /\ vadEnv.texts < MaxTexts
    /\ vad' = handleGeminiText(vad)
    /\ vadEnv' = [vadEnv EXCEPT !.texts = @ + 1, !.scen = ScenarioOff,
                                !.flushed = Flushed(vadEnv, vad, vad', "text")]
    /\ UNCHANGED <<pb, pbEnv, gate, gateEnv, client, clientEnv, phr, rec, recEnv, mute, muteEnv>>

\* A transcription request settles.
VadTranscribed ==
    /\ \E i \in 1..Len(vad.pending), outcome \in Outcomes :
          vad' = onTranscribed(vad, i, outcome)
    /\ UNCHANGED <<pb, pbEnv, gate, gateEnv, client, clientEnv, vadEnv, phr, rec, recEnv, mute, muteEnv>>

\* pauseAudio() and resumeAudio() of the Gemini socket, called for message id.
pauseAudio(v, id) == [v EXCEPT !.audioCalls = Append(@, [call |-> "pause", message |-> id])]
resumeAudio(v, id) == [v EXCEPT !.audioCalls = Append(@, [call |-> "resume", message |-> id])]

\* The playing-state callback given to TtsService.
onPlayingStateChange(v, isPlaying, id) ==
    IF ~isPlaying /\ ~v.modelSpeakingRef THEN resumeAudio(v, id) ELSE v

\* The backend socket's onmessage for a {message} notification, up to the
\* await of speak(): playback is paused and the utterance is queued.
onBackendMessage(v, id) ==
    [onPlayingStateChange(pauseAudio(v, id), TRUE, id) EXCEPT !.utterances = Append(@, id)]

\* utterance.onend, and onmessage after the await.
onSpeechEnd(v) ==
    LET id == Head(v.utterances)
        v1 == onPlayingStateChange([v EXCEPT !.utterances = Tail(@)], FALSE, id)
    IN resumeAudio([v1 EXCEPT !.spoken = Append(@, id)], id)

\* utterance.onerror: speak() rejects and onmessage logs the error.
onSpeechError(v) ==
    onPlayingStateChange([v EXCEPT !.utterances = Tail(@)], FALSE, Head(v.utterances))

\* The backend pushes a notification.
PushMessage ==
    /\ vadEnv.messages < MaxMessages
    /\ vad' = onBackendMessage(vad, vadEnv.messages + 1)
    /\ vadEnv' = [vadEnv EXCEPT !.messages = @ + 1]
    /\ UNCHANGED <<pb, pbEnv, gate, gateEnv, client, clientEnv, phr, rec, recEnv, mute, muteEnv>>

\* The utterance at the head of the speech queue was spoken to its end.
PushSpeechEnds ==
    /\ vad.utterances # << >>
    /\ vad' = onSpeechEnd(vad)
    /\ UNCHANGED <<pb, pbEnv, gate, gateEnv, client, clientEnv, vadEnv, phr, rec, recEnv, mute, muteEnv>>

\* Speech synthesis of the utterance at the head of the queue fails.
PushSpeechFails ==
    /\ vad.utterances # << >>
    /\ vad' = onSpeechError(vad)
    /\ UNCHANGED <<pb, pbEnv, gate, gateEnv, client, clientEnv, vadEnv, phr, rec, recEnv, mute, muteEnv>>

(***************************************************************************)
(* Properties of the segmenter                                             *)
(***************************************************************************)

\* The last call made on the Gemini socket's playback.
LastAudioCall ==
    IF vad.audioCalls = << >> THEN "none" ELSE vad.audioCalls[Len(vad.audioCalls)].call

\* C24 (as claimed): for every notification playback is paused before the
\* message is spoken and resumed after it, and every pause is eventually
\* followed by a resume, whether the speech ends or fails.
C24_PauseSpeakResume ==
    /\ [](\A s \in 1..Len(vad.spoken) :
            \E i, j \in 1..Len(vad.audioCalls) :
               /\ i < j
               /\ vad.audioCalls[i] = [call |-> "pause", message |-> vad.spoken[s]]
               /\ vad.audioCalls[j] = [call |-> "resume", message |-> vad.spoken[s]])
    /\ ((LastAudioCall = "pause") ~> (LastAudioCall = "resume"))


\* C40: while an announcement is being spoken or waits to be spoken the
\* playback of the model's audio stays paused: the last call made on the
\* playback is pauseAudio(), so the end of a first announcement does not
\* resume playback while a second one is still queued.
C40_PausedWhileAnnouncing ==
    vad.utterances # << >> => LastAudioCall = "pause"


\* C19: with the model not speaking, after a block above the start threshold
\* the segmenter is speaking; when the level has then been below the silence
\* threshold for more than 1500 ms the segment was flushed exactly once,
\* however many silent blocks followed, the accumulator is empty and the
\* segmenter is silent.
C19_SegmentFlushedOnce ==
    LET s == vadEnv.scen IN
    /\ (s.open /\ s.lowFor = Off => vad.speakingRef)
    /\ (s.open => s.flushes <= 1)
    /\ (s.open /\ s.quietFor > SILENCE_MS
          => /\ s.flushes = 1
             /\ vad.userChunksRef = << >>
             /\ ~vad.speakingRef)

\* C19 witness: after a block above the start threshold the level stayed
\* below the silence threshold for more than 1500 ms, the segment was
\* flushed, and a further silent block arrived after the flush.
C19_Witness ==
    /\ vadEnv.scen.open
    /\ vadEnv.scen.quietFor > SILENCE_MS
    /\ vadEnv.scen.flushes = 1
    /\ vadEnv.scen.quietAfterFlush
    /\ vad.userChunksRef = << >>

\* C21: a block handled while the model is speaking is not appended to the
\* accumulator and starts no segment (the accumulator and the speaking flag
\* stay as they were, nothing is flushed), and every block, muted or not,
\* sets the level meter to its level.
C21_MuteInterlock ==
    [][vadEnv'.blocks = vadEnv.blocks + 1
         => /\ vad'.audioLevel = vadEnv'.lastLevel
            /\ (vad.modelSpeakingRef
                  => /\ vad'.userChunksRef = vad.userChunksRef
                     /\ vad'.speakingRef = vad.speakingRef
                     /\ vad'.pending = vad.pending)]_vars

\* C21 witness: a block above the start threshold was handled while the
\* model was speaking and the segmenter was silent, and it stayed silent with
\* an empty accumulator while the meter shows the block's level.
C21_Witness ==
    /\ vadEnv.lastMuted
    /\ vad.modelSpeakingRef
    /\ vadEnv.lastLevel > START_LEVEL
    /\ vad.audioLevel = vadEnv.lastLevel
    /\ ~vad.speakingRef
    /\ vad.userChunksRef = << >>
    /\ vad.sent > 0

\* C22: no block is in two flushed segments or twice in one; the accumulator
\* never holds a block of a flushed segment; after a flush it is empty, and
\* when a segment starts it holds the block that started it and no other.
C22_NoLeakAcrossSegments ==
    /\ [](/\ \A i, j \in 1..Len(vadEnv.flushed) :
              i # j => Range(vadEnv.flushed[i].segment)
                         \cap Range(vadEnv.flushed[j].segment) = {}
          /\ \A i \in 1..Len(vadEnv.flushed) :
              /\ Increasing(vadEnv.flushed[i].segment)
              /\ Range(vadEnv.flushed[i].segment) \cap Range(vad.userChunksRef) = {})
    /\ [][/\ Len(vadEnv'.flushed) > Len(vadEnv.flushed) => vad'.userChunksRef = << >>
          /\ ~vad.speakingRef /\ vad'.speakingRef
                => vad'.userChunksRef = <<vadEnv'.blocks>>]_vars

\* C22 witness: a segment was flushed on silence and a later one by a text
\* of the model, and the microphone was switched off and on again.
C22_Witness ==
    /\ \E i, j \in 1..Len(vadEnv.flushed) :
          /\ i < j
          /\ vadEnv.flushed[i].by = "silence"
          /\ vadEnv.flushed[j].by = "text"
          /\ vadEnv.flushed[i].segment # << >>
          /\ vadEnv.flushed[j].segment # << >>
    /\ vadEnv.toggles > 1
    /\ vad.userChunksRef = << >>

\* C20 (as claimed): from speaking, with the model not speaking, when every
\* block has been at or below the silence threshold for the full 1500 ms,
\* the segmenter is silent again and the segment was flushed.
C20_SilentAfterTimeoutAtThreshold ==
    LET s == vadEnv.scen IN
    s.lowFromSpeaking /\ s.lowFor >= SILENCE_MS
      => ~vad.speakingRef /\ s.lowFlushed

(***************************************************************************)
(* 6. Repeated-phrase suppression of the text parts (MultimodalLiveClient) *)
(***************************************************************************)

\* Strings are sequences of characters.  The characters /[.!?]/ end a
\* sentence, /\s/ is the blank, and toLowerCase changes the capitals.
SentenceEnds == {".", "!", "?"}

Blanks == {" "}

lowerChar(c) == IF c = "A" THEN "a" ELSE IF c = "X" THEN "x" ELSE c

toLowerCase(s) == [i \in 1..Len(s) |-> lowerChar(s[i])]

\* String.split: with a regular expression /[...]+/ (runs TRUE) a run of
\* separators is one separator, with a string separator every separator
\* character splits.
RECURSIVE splitFrom(_, _, _, _, _)
splitFrom(s, i, cur, seps, runs) ==
    IF i > Len(s)
    THEN <<cur>>
    ELSE IF s[i] \in seps
    THEN IF runs /\ i > 1 /\ s[i - 1] \in seps
         THEN splitFrom(s, i + 1, cur, seps, runs)
         ELSE <<cur>> \o splitFrom(s, i + 1, << >>, seps, runs)
    ELSE splitFrom(s, i + 1, Append(cur, s[i]), seps, runs)

split(s, seps, runs) == splitFrom(s, 1, << >>, seps, runs)

RECURSIVE trimStart(_)
trimStart(s) ==
    IF s # << >> /\ s[1] \in Blanks THEN trimStart(Tail(s)) ELSE s

RECURSIVE trimEnd(_)
trimEnd(s) ==
    IF s # << >> /\ s[Len(s)] \in Blanks THEN trimEnd(SubSeq(s, 1, Len(s) - 1)) ELSE s

trim(s) == trimEnd(trimStart(s))

\* replace(/\s+/g, ' ')
RECURSIVE collapseBlanks(_)
collapseBlanks(s) ==
    IF s = << >>
    THEN << >>
    ELSE IF s[1] \in Blanks
    THEN IF Len(s) > 1 /\ s[2] \in Blanks
         THEN collapseBlanks(Tail(s))
         ELSE <<" ">> \o collapseBlanks(Tail(s))
    ELSE <<s[1]>> \o collapseBlanks(Tail(s))

normalize(trimmed) == collapseBlanks(toLowerCase(trimmed))

\* String.includes
includes(a, b) ==
    \E i \in 0..(Len(a) - Len(b)) : SubSeq(a, i + 1, i + Len(b)) = b

\* calculateSimilarity: the Jaccard similarity of the two sets of words, as
\* the fraction num / den.
calculateSimilarity(str1, str2) ==
    LET set1 == Range(split(str1, {" "}, FALSE))
        set2 == Range(split(str2, {" "}, FALSE))
    IN [num |-> Cardinality(set1 \cap set2), den |-> Cardinality(set1 \cup set2)]

\* The test of the inner loop of removeRepeatedPhrases: similarity > 0.7.
isSimilar(normalized, seen) ==
    \/ includes(normalized, seen)
    \/ includes(seen, normalized)
    \/ LET q == calculateSimilarity(normalized, seen) IN 10 * q.num > 7 * q.den

\* The loop over the sentences from sentence i on.
RECURSIVE uniqueSentences(_, _, _, _)
uniqueSentences(sentences, i, unique, seenContent) ==
    IF i > Len(sentences)
    THEN unique
    ELSE LET trimmed == trim(sentences[i])
             normalized == normalize(trimmed)
         IN IF Len(trimmed) < 3
            THEN uniqueSentences(sentences, i + 1, unique, seenContent)
            ELSE IF \E seen \in seenContent : isSimilar(normalized, seen)
            THEN uniqueSentences(sentences, i + 1, unique, seenContent)
            ELSE uniqueSentences(sentences, i + 1, Append(unique, trimmed),
                                 seenContent \cup {normalized})

\* Array.join
RECURSIVE join(_, _)
join(ss, sep) ==
    IF ss = << >> THEN << >>
    ELSE IF Len(ss) = 1 THEN ss[1]
    ELSE ss[1] \o sep \o join(Tail(ss), sep)

removeRepeatedPhrases(text) ==
    IF Len(text) < 10
    THEN text
    ELSE LET sentences == SelectSeq(split(text, SentenceEnds, TRUE),
                                    LAMBDA s : Len(trim(s)) > 0)
         IN IF Len(sentences) <= 1
            THEN text
            ELSE join(uniqueSentences(sentences, 1, << >>, {}), <<".", " ">>)
                   \o (IF text[Len(text)] = "." THEN <<".">> ELSE << >>)

\* A part of a model turn that is not audio: a text, or a part of another
\* kind (no text field).
NoText == << >>

\* The 'content' event receive() emits for the parts that are not audio.
contentOf(otherParts) ==
    IF otherParts[1].text # NoText
    THEN [i \in 1..Len(otherParts) |->
            IF otherParts[i].text # NoText
            THEN [text |-> removeRepeatedPhrases(otherParts[i].text)]
            ELSE otherParts[i]]
    ELSE otherParts

phrInit == [parts |-> << >>, content |-> << >>]

\* Sentences the model says, and what stands between and after them.
MaxSentences == 3

Sentences ==
    { <<"a", " ", "b", " ", "c", " ", "d">>,
      <<"d", " ", "b", " ", "a">>,
      <<"A", " ", " ", "b", " ", "c", " ", "d">>,
      <<"b", " ", "c">>,
      <<"o", "k">>,
      <<"x", " ", "y">> }

Between == { <<".", " ">>, <<"!">>, <<"?", "!", " ">> }

Endings == { << >>, <<".">>, <<"!">> }

RECURSIVE TextsOf(_)
TextsOf(n) ==
    IF n = 1
    THEN {s \o e : s \in Sentences, e \in Endings}
    ELSE {s \o b \o t : s \in Sentences, b \in Between, t \in TextsOf(n - 1)}

\* The server sends a model turn whose parts that are not audio are a text,
\* with or without a part of another kind before it.
PhMessage ==
    /\ phr.parts = << >>
    /\ \E n \in 1..MaxSentences : \E text \in TextsOf(n) : \E lead \in BOOLEAN :
          phr' = [phr EXCEPT !.parts =
                    (IF lead THEN <<[text |-> NoText]>> ELSE << >>)
                      \o <<[text |-> text]>>]
    /\ UNCHANGED <<pb, pbEnv, gate, gateEnv, client, clientEnv, vad, vadEnv, rec, recEnv, mute, muteEnv>>

\* receive() emits the 'content' event of the turn.
PhReceive ==
    /\ phr.parts # << >>
    /\ phr.content = << >>
    /\ phr' = [phr EXCEPT !.content = contentOf(phr.parts)]
    /\ UNCHANGED <<pb, pbEnv, gate, gateEnv, client, clientEnv, vad, vadEnv, rec, recEnv, mute, muteEnv>>

(***************************************************************************)
(* Properties of the repeated-phrase suppression                           *)
(***************************************************************************)

\* The sentence segments of a text, trimmed.
Segments(text) ==
    LET raw == split(text, SentenceEnds, TRUE)
        trimmed == [i \in 1..Len(raw) |-> trim(raw[i])]
    IN SelectSeq(trimmed, LAMBDA s : s # << >>)

NearDuplicate(a, b) ==
    LET na == normalize(a)
        nb == normalize(b)
        q == calculateSimilarity(na, nb)
    IN includes(na, nb) \/ includes(nb, na) \/ 10 * q.num > 7 * q.den

\* The elements of s at the positions in K, in the order of s.
RECURSIVE Pick(_, _, _)
Pick(s, K, i) ==
    IF i > Len(s) THEN << >>
    ELSE (IF i \in K THEN <<s[i]>> ELSE << >>) \o Pick(s, K, i + 1)

\* out keeps no two near-duplicate segments, and is what is left of text
\* when segments shorter than 3 characters or near-duplicates of a segment
\* kept before them are dropped.
Suppressed(text, out) ==
    LET in == Segments(text)
        kept == Segments(out)
    IN /\ \A j \in 1..Len(kept) : \A k \in 1..(j - 1) : ~NearDuplicate(kept[j], kept[k])
       /\ \E K \in SUBSET (1..Len(in)) :
             /\ Pick(in, K, 1) = kept
             /\ \A i \in (1..Len(in)) \ K :
                   \/ Len(in[i]) < 3
                   \/ \E k \in K : k < i /\ NearDuplicate(in[i], in[k])

\* C27: in the text of an emitted 'content' event no kept segment is a
\* near-duplicate of an earlier kept one, the kept segments are in their
\* original order, and every dropped segment is shorter than 3 characters or
\* a near-duplicate of an earlier kept one.
C27_NoRepeatedPhrase ==
    \A i \in 1..Len(phr.content) :
        phr.parts[i].text # NoText
          => Suppressed(phr.parts[i].text, phr.content[i].text)

(***************************************************************************)
(* 7. The outbound buffer queue of the microphone recorder (AudioRecorder) *)
(***************************************************************************)

maxBufferQueueSize == 10

PROCESSING_INTERVAL == 50

\* Buffers the recording worklet posts, and calls of stop().
MaxCaptures == 12
MaxStops == 1

recInit ==
    [ recordingWorklet   |-> FALSE,   \* port.onmessage is installed
      bufferQueue        |-> << >>,
      isProcessingBuffer |-> FALSE,
      processingInterval |-> Off,     \* time to the next interval callback
      data               |-> << >> ]  \* the 'data' events emitted

recEnvInit == [captured |-> 0, stops |-> 0]

startBufferProcessing(r) == [r EXCEPT !.processingInterval = PROCESSING_INTERVAL]

\* recordingWorklet.port.onmessage that drops the newest buffer on overflow.
onRecorderMessageDropsNewest(r, arrayBuffer) ==
    IF arrayBuffer = Null
    THEN r
    ELSE LET pushed == Append(r.bufferQueue, arrayBuffer)
             r1 == [r EXCEPT !.bufferQueue =
                      IF Len(pushed) > maxBufferQueueSize
                      THEN SubSeq(pushed, 1, Len(pushed) - 1)
                      ELSE pushed]
         IN IF ~r1.isProcessingBuffer /\ r1.processingInterval = Off
            THEN startBufferProcessing(r1)
            ELSE r1

\* recordingWorklet.port.onmessage: arrayBuffer is ev.data.data.int16arrayBuffer,
\* Null when the message carries none.
onRecorderMessage(r, arrayBuffer) ==
    IF arrayBuffer = Null
    THEN r
    ELSE LET pushed == Append(r.bufferQueue, arrayBuffer)
             r1 == [r EXCEPT !.bufferQueue =
                      IF Len(pushed) > maxBufferQueueSize THEN Tail(pushed) ELSE pushed]
         IN IF ~r1.isProcessingBuffer /\ r1.processingInterval = Off
            THEN startBufferProcessing(r1)
            ELSE r1

\* The callback of the interval.
onProcessingInterval(r) ==
    LET r0 == [r EXCEPT !.processingInterval = PROCESSING_INTERVAL] IN
    IF Len(r.bufferQueue) > 0 /\ ~r.isProcessingBuffer
    THEN [r0 EXCEPT !.bufferQueue = Tail(@),
                    !.data = Append(@, Head(r.bufferQueue))]
    ELSE r0

\* stop(), as far as the queue goes.
stopRecorder(r) ==
    [r EXCEPT !.processingInterval = Off,
              !.bufferQueue = << >>,
              !.isProcessingBuffer = FALSE]

\* start() has set up the recording worklet.
RecStart ==
    /\ ~rec.recordingWorklet
    /\ rec' = [rec EXCEPT !.recordingWorklet = TRUE]
    /\ UNCHANGED <<pb, pbEnv, gate, gateEnv, client, clientEnv, vad, vadEnv, phr, recEnv, mute, muteEnv>>

\* The worklet posts the next buffer it captured.
RecCapture ==
    /\ rec.recordingWorklet
    /\ recEnv.captured < MaxCaptures
    /\ rec' = onRecorderMessage(rec, recEnv.captured + 1)
    /\ recEnv' = [recEnv EXCEPT !.captured = @ + 1]
    /\ UNCHANGED <<pb, pbEnv, gate, gateEnv, client, clientEnv, vad, vadEnv, phr, mute, muteEnv>>

RecIntervalFires ==
    /\ rec.processingInterval = 0
    /\ rec' = onProcessingInterval(rec)
    /\ UNCHANGED <<pb, pbEnv, gate, gateEnv, client, clientEnv, vad, vadEnv, phr, recEnv, mute, muteEnv>>

RecStop ==
    /\ recEnv.stops < MaxStops
    /\ rec.recordingWorklet
    /\ rec' = stopRecorder(rec)
    /\ recEnv' = [recEnv EXCEPT !.stops = @ + 1]
    /\ UNCHANGED <<pb, pbEnv, gate, gateEnv, client, clientEnv, vad, vadEnv, phr, mute, muteEnv>>

\* Time passes up to the next callback of the interval.
RecTick ==
    /\ rec.processingInterval > 0
    /\ rec' = [rec EXCEPT !.processingInterval = 0]
    /\ UNCHANGED <<pb, pbEnv, gate, gateEnv, client, clientEnv, vad, vadEnv, phr, recEnv, mute, muteEnv>>

(***************************************************************************)
(* Properties of the recorder queue                                        *)
(***************************************************************************)

\* C30: the 'data' events carry captured buffers in the order of capture;
\* after a capture message the queue holds at most 10 buffers, and a buffer
\* pushed onto a full queue pushes the oldest one out; a 'data' event is
\* emitted only by a callback of the 50 ms interval, one buffer at a time.
C30_RecorderQueue ==
    /\ [](/\ Increasing(rec.data)
          /\ Range(rec.data) \subseteq 1..recEnv.captured
          /\ Len(rec.bufferQueue) <= maxBufferQueueSize)
    /\ [][/\ (recEnv'.captured = recEnv.captured + 1
                /\ Len(rec.bufferQueue) = maxBufferQueueSize)
              => rec'.bufferQueue = Append(Tail(rec.bufferQueue), recEnv'.captured)
          /\ rec'.data # rec.data
              => /\ rec.processingInterval = 0
                 /\ rec'.processingInterval = PROCESSING_INTERVAL
                 /\ rec.bufferQueue # << >>
                 /\ rec'.data = Append(rec.data, Head(rec.bufferQueue))
                 /\ rec'.bufferQueue = Tail(rec.bufferQueue)]_vars

\* C38: after stop() no 'data' event is emitted and no processing interval
\* is running, also when capture messages are delivered after stop().
C38_NothingAfterStop ==
    /\ [](recEnv.stops > 0 => rec.processingInterval = Off)
    /\ [][recEnv.stops > 0 => rec'.data = rec.data]_vars

\* C30 witness: a buffer was pushed out of the full queue, and the buffers
\* before and after it were emitted.
C30_Witness ==
    /\ recEnv.captured > maxBufferQueueSize
    /\ \E i \in 1..(Len(rec.data) - 1) : rec.data[i + 1] > rec.data[i] + 1
    /\ recEnv.stops = 0

(***************************************************************************)
(* 8. Auto-mute of the microphone (BrowserIntentAgent volume effect)       *)
(***************************************************************************)

\* Volumes are in hundredths: silenceThreshold is 0.05.
silenceThreshold == 5
silenceDuration == 2000
responseCooldownPeriod == 3000

\* now - lastVolumeTimeRef.current > 500 starts the silence timer.
VOLUME_GAP == 500

\* Volume reports, responses of the model and clicks on the auto-mute switch.
MaxVolumes == 4
MaxResponses == 2
MaxSwitches == 2

Volumes == {silenceThreshold - 4, silenceThreshold - 2, silenceThreshold + 15}

MuteTickMs == VOLUME_GAP + 1

\* "Date.now() - lastResponseTimeRef.current" and
\* "Date.now() - lastVolumeTimeRef.current" are kept up to these values.
ResponseAgeCap == responseCooldownPeriod
VolumeAgeCap == VOLUME_GAP + 1

muteInit ==
    [ autoMuteEnabled |-> TRUE,
      muted           |-> FALSE,
      volume          |-> 0,
      silenceTimerRef |-> Off,            \* the pending silence timer
      sinceVolume     |-> 0,              \* now - lastVolumeTimeRef
      sinceResponse   |-> ResponseAgeCap ]\* now - lastResponseTimeRef

\* How often the hook, the model and the user have acted.
muteEnvInit == [volumes |-> 0, responses |-> 0, switches |-> 0]

\* The volume effect: it runs when volume, autoMuteEnabled or muted change.
volumeEffect(m) ==
    IF ~m.autoMuteEnabled
    THEN m
    ELSE LET isInResponseCooldown == m.sinceResponse < responseCooldownPeriod IN
         IF m.volume > silenceThreshold
         THEN [m EXCEPT !.sinceVolume = 0,
                        !.muted = FALSE,
                        !.silenceTimerRef = Off]
         ELSE IF ~m.muted /\ ~isInResponseCooldown /\ m.sinceVolume > VOLUME_GAP
         THEN IF m.silenceTimerRef = Off
              THEN [m EXCEPT !.silenceTimerRef = silenceDuration]
              ELSE m
         ELSE m

\* The callback of the silence timer.
onSilenceTimer(m) ==
    LET m1 == [m EXCEPT !.silenceTimerRef = Off] IN
    IF m.sinceResponse >= responseCooldownPeriod
    THEN [m1 EXCEPT !.muted = TRUE]
    ELSE m1

\* onToolCall and onContent: lastResponseTimeRef.current = Date.now()
onResponse(m) == [m EXCEPT !.sinceResponse = 0]

mutePending(m) == IF m.silenceTimerRef = Off THEN {} ELSE {m.silenceTimerRef}

mutePass(m, d) ==
    [m EXCEPT !.silenceTimerRef = Dec(@, d),
              !.sinceVolume = Min(@ + d, VolumeAgeCap),
              !.sinceResponse = Min(@ + d, ResponseAgeCap)]

\* The hook reports a new volume.
AmVolume ==
    /\ muteEnv.volumes < MaxVolumes
    /\ \E v \in Volumes :
          /\ v # mute.volume
          /\ mute' = volumeEffect([mute EXCEPT !.volume = v])
    /\ muteEnv' = [muteEnv EXCEPT !.volumes = @ + 1]
    /\ UNCHANGED <<pb, pbEnv, gate, gateEnv, client, clientEnv, vad, vadEnv, phr, rec, recEnv>>

\* The user clicks the auto-mute switch.
AmSwitch ==
    /\ muteEnv.switches < MaxSwitches
    /\ mute' = volumeEffect([mute EXCEPT !.autoMuteEnabled = ~@])
    /\ muteEnv' = [muteEnv EXCEPT !.switches = @ + 1]
    /\ UNCHANGED <<pb, pbEnv, gate, gateEnv, client, clientEnv, vad, vadEnv, phr, rec, recEnv>>

\* A 'toolcall' or 'content' event.
AmResponse ==
    /\ muteEnv.responses < MaxResponses
    /\ mute' = onResponse(mute)
    /\ muteEnv' = [muteEnv EXCEPT !.responses = @ + 1]
    /\ UNCHANGED <<pb, pbEnv, gate, gateEnv, client, clientEnv, vad, vadEnv, phr, rec, recEnv>>

\* The silence timer fires; the effect runs again when 'muted' has changed.
AmSilenceTimerFires ==
    /\ mute.silenceTimerRef = 0
    /\ LET m == onSilenceTimer(mute) IN
       mute' = IF m.muted # mute.muted THEN volumeEffect(m) ELSE m
    /\ UNCHANGED <<pb, pbEnv, gate, gateEnv, client, clientEnv, vad, vadEnv, phr, rec, recEnv, muteEnv>>

AmTick ==
    /\ NextStep(mutePending(mute), MuteTickMs) > 0
    /\ mute' = mutePass(mute, NextStep(mutePending(mute), MuteTickMs))
    /\ mute' # mute
    /\ UNCHANGED <<pb, pbEnv, gate, gateEnv, client, clientEnv, vad, vadEnv, phr, rec, recEnv, muteEnv>>

(***************************************************************************)
(* Properties of the auto-mute                                             *)
(***************************************************************************)

\* C39: the silence timer mutes the microphone only while auto-mute is
\* enabled and only when at least 3000 ms have passed since the last tool
\* call or content event; with auto-mute disabled no timer mutes, a timer
\* that was pending when it was disabled included.
C39_AutoMuteOnlyWhileEnabled ==
    [][mute.silenceTimerRef = 0 /\ mute'.silenceTimerRef = Off
          /\ mute'.muted /\ ~mute.muted
        => /\ mute.autoMuteEnabled
           /\ mute.sinceResponse >= responseCooldownPeriod]_vars

(***************************************************************************)
(* Specifications                                                          *)
(***************************************************************************)
Init ==
    /\ pb = pbInit
    /\ pbEnv = pbEnvInit
    /\ gate = gateInit
    /\ gateEnv = gateEnvInit
    /\ client = clientInit
    /\ clientEnv = clientEnvInit
    /\ vad = vadInit
    /\ vadEnv = vadEnvInit
    /\ phr = phrInit
    /\ rec = recInit
    /\ recEnv = recEnvInit
    /\ mute = muteInit
    /\ muteEnv = muteEnvInit

NextPlayback ==
    \/ PbAudioContextResolved
    \/ PbWorkletAdded
    \/ PbAudio
    \/ PbInterrupted
    \/ PbTurnComplete
    \/ PbDrainTimerFires
    \/ PbSpeechTimerFires
    \/ PbTurnCompleteTimerFires
    \/ PbTick

SpecPlayback == Init /\ [][NextPlayback]_vars

\* The scheduler without interruptions; a timer that is due fires, time
\* passes, and the set-up of the output device completes.
NextPlaybackLive ==
    \/ PbAudioContextResolved
    \/ PbWorkletAdded
    \/ PbAudio
    \/ PbTurnComplete
    \/ PbDrainTimerFires
    \/ PbSpeechTimerFires
    \/ PbTurnCompleteTimerFires
    \/ PbTick

SpecPlaybackLive ==
    /\ Init
    /\ [][NextPlaybackLive]_vars
    /\ WF_vars(PbAudioContextResolved)
    /\ WF_vars(PbWorkletAdded)
    /\ WF_vars(PbDrainTimerFires)
    /\ WF_vars(PbSpeechTimerFires)
    /\ WF_vars(PbTurnCompleteTimerFires)
    /\ WF_vars(PbTick)

\* The connection lifecycle of the client.
NextConn ==
    \/ ClConnect
    \/ ClSocketOpens
    \/ ClSocketFails
    \/ ClSocketCloses
    \/ ClDisconnect

SpecConn == Init /\ [][NextConn]_vars

\* The connection lifecycle with the send methods.
NextSend ==
    \/ ClConnect
    \/ ClSocketOpens
    \/ ClSocketFails
    \/ ClRemoteClosing
    \/ ClSocketCloses
    \/ ClDisconnect
    \/ ClSend
    \/ ClSendRealtimeInput
    \/ ClSendToolResponse

SpecSend == Init /\ [][NextSend]_vars

\* Inbound dispatch on one connection.
NextReceive ==
    \/ ClFirstConnect
    \/ ClSocketOpens
    \/ ClServerMessage
    \/ ClReceive
    \/ ClReceiveResumes
    \/ ClTurnCompleteTimerFires
    \/ ClTick

SpecReceive == Init /\ [][NextReceive]_vars

\* Inbound dispatch of every kind of frame, with sends in between.
NextDispatch ==
    \/ ClFirstConnect
    \/ ClSocketOpens
    \/ ClDispatchMessage
    \/ ClReceive
    \/ ClTurnCompleteTimerFires
    \/ ClTick
    \/ ClSend

SpecDispatch == Init /\ [][NextDispatch]_vars

\* Inbound dispatch of frames that end a turn.
NextTurnEnd ==
    \/ ClFirstConnect
    \/ ClSocketOpens
    \/ ClTurnEndMessage
    \/ ClReceive
    \/ ClReceiveResumes
    \/ ClTurnCompleteTimerFires
    \/ ClTick

SpecTurnEnd == Init /\ [][NextTurnEnd]_vars

\* The intent gate behind one connection.
NextGate ==
    \/ ClFirstConnect
    \/ ClSocketOpens
    \/ GateDisconnect
    \/ GateToolCallMessage
    \/ GateToolCall
    \/ GatePreFetchDelayElapsed
    \/ GateFetchResponds
    \/ GateFetchRejects
    \/ GateFetchTimesOut
    \/ GateAbandonedFetchSettles
    \/ GateBodyRead
    \/ GateBodyFails
    \/ GateBodyStalls
    \/ GateUpdateDelayElapsed
    \/ GateReleaseTimerFires
    \/ GateTick

SpecGate == Init /\ [][NextGate]_vars

\* The gate with its scheduling: a received message is handled, a timer that
\* is due fires, time passes, and a body that is being read is read, fails
\* or stalls.
SpecGateLive ==
    /\ Init
    /\ [][NextGate]_vars
    /\ WF_vars(GateToolCall)
    /\ WF_vars(GatePreFetchDelayElapsed)
    /\ WF_vars(GateFetchTimesOut)
    /\ WF_vars(GateBodyRead \/ GateBodyFails \/ GateBodyStalls)
    /\ WF_vars(GateUpdateDelayElapsed)
    /\ WF_vars(GateReleaseTimerFires)
    /\ WF_vars(GateTick)

NextPhrases ==
    \/ PhMessage
    \/ PhReceive

SpecPhrases == Init /\ [][NextPhrases]_vars

NextRecorder ==
    \/ RecStart
    \/ RecCapture
    \/ RecIntervalFires
    \/ RecStop
    \/ RecTick

SpecRecorder == Init /\ [][NextRecorder]_vars

NextMute ==
    \/ AmVolume
    \/ AmSwitch
    \/ AmResponse
    \/ AmSilenceTimerFires
    \/ AmTick

SpecMute == Init /\ [][NextMute]_vars

\* The microphone segmenter.
NextVad ==
    \/ VadStartMicrophone
    \/ VadStopMicrophone
    \/ VadEffectCleanup
    \/ VadBlock
    \/ VadModelSpeaking
    \/ VadGeminiText
    \/ VadTranscribed

SpecVad == Init /\ [][NextVad]_vars

\* The backend push channel; every utterance queued in speechSynthesis
\* comes to an end or fails.
NextPush ==
    \/ PushMessage
    \/ PushSpeechEnds
    \/ PushSpeechFails
    \/ VadModelSpeaking

SpecPush == Init /\ [][NextPush]_vars /\ WF_vars(PushSpeechEnds \/ PushSpeechFails)

\* The client and the hook together: the events of the client drive the
\* playback scheduler.
NextSession ==
    \/ ClFirstConnect
    \/ ClSocketOpens
    \/ PbAudioContextResolved
    \/ PbWorkletAdded
    \/ SsMessage
    \/ SsReceive
    \/ SsReceiveResumes
    \/ SsTurnCompleteTimerFires
    \/ PbDrainTimerFires
    \/ PbSpeechTimerFires
    \/ PbTurnCompleteTimerFires
    \/ SsTick

SpecSession == Init /\ [][NextSession]_vars

NextReconnect ==
    \/ HkConnect
    \/ ClConnect
    \/ HkDisconnect
    \/ HkSocketOpens
    \/ HkSocketCloses
    \/ HkMessage
    \/ ClReceive

SpecReconnect == Init /\ [][NextReconnect]_vars

\* The client and the hook while the connection is closed from either side.
NextClose ==
    \/ ClFirstConnect
    \/ ClSocketOpens
    \/ PbAudioContextResolved
    \/ PbWorkletAdded
    \/ SsMessage
    \/ SsReceive
    \/ SsReceiveResumes
    \/ SsTurnCompleteTimerFires
    \/ PbDrainTimerFires
    \/ PbSpeechTimerFires
    \/ PbTurnCompleteTimerFires
    \/ SsTick
    \/ ClDisconnect
    \/ ClSocketCloses

SpecClose == Init /\ [][NextClose]_vars

====
